---- MODULE Spec2Model ----
(***************************************************************************)
(* word2md: convert_file of docx_converter with its image extraction, the  *)
(* document walk (DocumentProcessor, ParagraphProcessor, ListProcessor,    *)
(* TextFormatter), the heading normalizer and clean_markdown_content, and  *)
(* scripts/bump_version.py, as state machines.                             *)
(*                                                                         *)
(* Text is a sequence of characters, each character a string; characters   *)
(* outside ASCII are written by code point ("U+2022").  A line of the      *)
(* output buffer is such a sequence, the buffer a sequence of lines.       *)
(***************************************************************************)
EXTENDS Integers, Sequences, FiniteSets, TLC

VARIABLES
    doc,                  \* the block sequence of the document being converted
    pos,                  \* index of the next element of doc.element.body
    pc,                   \* where convert_file stands: "idle" | "start" | "setup" |
                          \* "doc" | "load" | "extract" | "analyze" | "walk" |
                          \* "clean" | "done" | "returned" | "raised"; where main of
                          \* bump_version.py stands: "main" | "init_py" |
                          \* "setup_py" | "report" | "exited"
    output_lines,         \* DocxToMarkdownConverter.output_lines
    in_list,              \* ListProcessor.in_list
    list_type,            \* ListProcessor.list_type ("none" is None)
    list_counters,        \* ListProcessor.list_counters, level -> next ordinal
    current_list_level,   \* ListProcessor.current_list_level
    first_heading_found,  \* local of convert_document
    markdown_content,     \* the string convert_file returns
    heading_offset,       \* ParagraphProcessor.heading_offset
    font_size_headings,   \* DocumentProcessor.font_size_headings, size -> level
    inputs,               \* the input files handed to convert_file, in call order
    conv,                 \* index in inputs of the call under way (0: none yet)
    image_counter,        \* image_counter of the image extraction
    image_map,            \* image_map, relationship id -> file name
    assets,               \* the files written to the assets directory, in order
    fs,                   \* what the call under way has created in the file system
    emitted,              \* history: the buffer as it was before the normalizer
    log,                  \* history: what each element was emitted as
    extraction,           \* history: how the image extraction of the call went
    results,              \* history: the outcome of each finished call
    argv,                 \* bump_version.py: sys.argv[1:]
    version_files,        \* bump_version.py: the text of __init__.py and setup.py
    files_changed,        \* bump_version.py: files_changed of main
    exit_code,            \* bump_version.py: what main returned (<<>>: running)
    original_files,       \* history: the files as they were before the run
    input_path,           \* convert_file's input_path, a sequence of path components
    output_path,          \* convert_file's output_path (<<>> is None)
    dirs,                 \* the directories that exist in the file system
    output_folder,        \* DocxToMarkdownConverter.output_folder
    assets_dir,           \* DocxToMarkdownConverter.assets_dir
    final_output_path     \* the path _write_output wrote the Markdown to

\* the state of one walk over a document
walkvars == <<doc, pos, pc, output_lines, in_list, list_type, list_counters,
              current_list_level, first_heading_found, markdown_content,
              heading_offset, font_size_headings, emitted, log>>

\* the state of convert_file around the walk
filevars == <<inputs, conv, image_counter, image_map, assets, fs, extraction, results>>

\* the state of a run of scripts/bump_version.py
bumpvars == <<argv, version_files, files_changed, exit_code, original_files>>

\* the paths convert_file is called with and works on
pathvars == <<input_path, output_path, dirs, output_folder, assets_dir, final_output_path>>

vars == <<walkvars, filevars, bumpvars, pathvars>>

-----------------------------------------------------------------------------
(* Characters *)

WS == {" ", "\t", "\n"}
DIGITS == {"0", "1", "2", "3", "4", "5", "6", "7", "8", "9"}

ch_bullet == "U+2022"
ch_white_bullet == "U+25E6"
ch_black_small_square == "U+25AA"
ch_white_small_square == "U+25AB"
ch_triangular_bullet == "U+2023"
ch_fullwidth_rparen == "U+FF09"
ch_ideographic_comma == "U+3001"

\* the class [U+3002 U+FF01 U+FF1F U+FF1A U+FF1B U+FF0C] of _clean_heading_text
CJK_PUNCT == {"U+3002", "U+FF01", "U+FF1F", "U+FF1A", "U+FF1B", "U+FF0C"}
ASCII_PUNCT == {":", "."}

-----------------------------------------------------------------------------
(* Python string primitives *)

SetMax(S) == CHOOSE m \in S : \A n \in S : n <= m
SetMin(S) == CHOOSE m \in S : \A n \in S : m <= n
Min2(a, b) == IF a <= b THEN a ELSE b
Max2(a, b) == IF a >= b THEN a ELSE b

Take(s, n) == SubSeq(s, 1, n)
Drop(s, n) == SubSeq(s, n + 1, Len(s))
Repeat(c, n) == [i \in 1..n |-> c]

\* the number of leading (trailing) characters of s that are in set
LeadCount(s, set) ==
    LET bad == {i \in 1..Len(s) : s[i] \notin set}
    IN  IF bad = {} THEN Len(s) ELSE SetMin(bad) - 1
TrailCount(s, set) ==
    LET bad == {i \in 1..Len(s) : s[i] \notin set}
    IN  IF bad = {} THEN Len(s) ELSE Len(s) - SetMax(bad)

\* the number of characters of s that stand before the first c
LeadLength(s, c) ==
    IF \E i \in 1..Len(s) : s[i] = c THEN SetMin({i \in 1..Len(s) : s[i] = c}) - 1
    ELSE Len(s)

\* re.sub(r'[set]+$', '', s)
RStripSet(s, set) == Take(s, Len(s) - TrailCount(s, set))
\* str.strip()
Strip(s) == RStripSet(Drop(s, LeadCount(s, WS)), WS)
\* str.startswith
StartsWith(s, p) == Len(p) <= Len(s) /\ Take(s, Len(p)) = p
\* p in s
Contains(s, p) == \E i \in 0..(Len(s) - Len(p)) : SubSeq(s, i + 1, i + Len(p)) = p
\* s.count(c)
CountChar(s, c) == Cardinality({i \in 1..Len(s) : s[i] = c})

RECURSIVE Join(_, _)
\* sep.join(parts)
Join(parts, sep) ==
    IF parts = <<>> THEN <<>>
    ELSE IF Len(parts) = 1 THEN parts[1]
    ELSE parts[1] \o sep \o Join(Tail(parts), sep)

DigitVal(c) ==
    CASE c = "0" -> 0 [] c = "1" -> 1 [] c = "2" -> 2 [] c = "3" -> 3
      [] c = "4" -> 4 [] c = "5" -> 5 [] c = "6" -> 6 [] c = "7" -> 7
      [] c = "8" -> 8 [] c = "9" -> 9

RECURSIVE DigitsVal(_)
DigitsVal(s) == IF s = <<>> THEN 0 ELSE 10 * DigitsVal(Take(s, Len(s) - 1)) + DigitVal(s[Len(s)])

\* int(s): the value in a one-element sequence, or <<>> for ValueError
ParseInt(s) ==
    LET body == IF s # <<>> /\ s[1] \in {"-", "+"} THEN Tail(s) ELSE s
    IN  IF body = <<>> \/ \E i \in 1..Len(body) : body[i] \notin DIGITS THEN <<>>
        ELSE IF s[1] = "-" THEN << 0 - DigitsVal(body) >>
        ELSE << DigitsVal(body) >>

-----------------------------------------------------------------------------
(* utils.clean_markdown_content *)

RECURSIVE CollapseNewlines(_)
\* re.sub(r'\n{3,}', '\n\n', s)
CollapseNewlines(s) ==
    IF s = <<>> THEN <<>>
    ELSE LET n == LeadCount(s, {"\n"})
         IN  IF n >= 3 THEN <<"\n", "\n">> \o CollapseNewlines(Drop(s, n))
             ELSE IF n >= 1 THEN Take(s, n) \o CollapseNewlines(Drop(s, n))
             ELSE LET k == LeadLength(s, "\n")
                  IN  Take(s, k) \o CollapseNewlines(Drop(s, k))

CleanNoStrip(lines) == CollapseNewlines(Join(lines, <<"\n">>)) \o <<"\n">>

clean_markdown_content(lines) ==
    Strip(CollapseNewlines(Join(lines, <<"\n">>))) \o <<"\n">>

-----------------------------------------------------------------------------
(* DocumentProcessor._fix_heading_levels *)

\* does '.+$' match the whole of s (a final newline may stay unmatched)
DotPlusToEnd(s) ==
    LET x == IF s # <<>> /\ s[Len(s)] = "\n" THEN Take(s, Len(s) - 1) ELSE s
    IN  x # <<>> /\ \A i \in 1..Len(x) : x[i] # "\n"

\* re.match(r'^(#{1,6})\s+(.+)$', line): <<>> or <<[level, text]>>
HeadingMatch(line) ==
    LET h == LeadCount(line, {"#"})
        body == Drop(line, h)
        w == LeadCount(body, WS)
        J == {j \in 1..w : DotPlusToEnd(Drop(body, j))}
    IN  IF h \in 1..6 /\ J # {}
        THEN LET t == Drop(body, SetMax(J))
             IN  << [level |-> h,
                     text |-> IF t[Len(t)] = "\n" THEN Take(t, Len(t) - 1) ELSE t] >>
        ELSE <<>>

IsHeadingLine(line) == HeadingMatch(line) # <<>>

_clean_heading_text(text) ==
    Strip(RStripSet(Strip(RStripSet(Strip(text), CJK_PUNCT)), ASCII_PUNCT))

ClampAlways(current_level, last_heading_level) ==
    Min2(current_level, last_heading_level + 1)

ClampNever(current_level, last_heading_level) == current_level

ClampRaising(current_level, last_heading_level) == Min2(last_heading_level + 1, 6)

\* lines 98-103: the level a heading gets after the heading before it
ClampLevel(current_level, last_heading_level) ==
    IF last_heading_level > 0 /\ current_level > last_heading_level + 1
    THEN last_heading_level + 1
    ELSE current_level

RECURSIVE FixFrom(_, _, _)
\* the loop of _fix_heading_levels from line i on, with last_heading_level
FixFrom(lines, i, last_heading_level) ==
    IF i > Len(lines) THEN <<>>
    ELSE LET m == HeadingMatch(lines[i])
         IN  IF m # <<>>
             THEN LET current_level == ClampLevel(m[1].level, last_heading_level)
                      fixed_line == Repeat("#", current_level) \o <<" ">>
                                    \o _clean_heading_text(m[1].text)
                  IN  <<fixed_line>> \o FixFrom(lines, i + 1, current_level)
             ELSE <<lines[i]>> \o FixFrom(lines, i + 1, last_heading_level)

_fix_heading_levels(lines) == FixFrom(lines, 1, 0)

-----------------------------------------------------------------------------
(* The document model python-docx hands to the converter *)

\* a run: text, the formatting flags, font size in points (0: no size set)
Run(text, bold, size) ==
    [text |-> text, bold |-> bold, italic |-> FALSE, underline |-> FALSE, size |-> size]

\* a hyperlink element of a paragraph: its r:id attribute (<<>>: none), the
\* text of its text elements, and the number of runs of the paragraph that
\* stand before it
Hyperlink(rel_id, text, at) == [rel_id |-> rel_id, text |-> text, at |-> at]

\* a paragraph element (tag 'p'): style name, paragraph.runs (the runs that are
\* children of the paragraph; the runs inside a hyperlink element are not among
\* them), its hyperlink elements in document order, numPr (<<>> or <<ilvl>>, ilvl
\* being <<>> or <<val>>), ind (<<>> or <<left>>), and its drawing elements,
\* here as many drawing elements without a blip as images says; a drawing
\* element is the sequence of the r:embed attributes of its blip elements
\* (<<>>: none)
LinkedPara(style, runs, hyperlinks, numPr, ind, images) ==
    [tag |-> "p", style |-> style, runs |-> runs, hyperlinks |-> hyperlinks,
     numPr |-> numPr, ind |-> ind, drawings |-> [k \in 1..images |-> <<>>],
     rows |-> <<>>]

\* a paragraph without hyperlink elements
Para(style, runs, numPr, ind, images) ==
    LinkedPara(style, runs, <<>>, numPr, ind, images)

\* a table element (tag 'tbl'): rows of cell texts
Tbl(rows) ==
    [tag |-> "tbl", style |-> <<>>, runs |-> <<>>, hyperlinks |-> <<>>,
     numPr |-> <<>>, ind |-> <<>>, drawings |-> <<>>, rows |-> rows]

\* a paragraph with the given drawing elements in its runs
PicturePara(style, runs, drawings) ==
    [Para(style, runs, <<>>, <<>>, 0) EXCEPT !.drawings = drawings]

RECURSIVE ConcatRuns(_)
ConcatRuns(runs) == IF runs = <<>> THEN <<>> ELSE runs[1].text \o ConcatRuns(Tail(runs))

RECURSIVE ConcatLinks(_, _)
\* the text of the hyperlink elements that stand after exactly at runs
ConcatLinks(hyperlinks, at) ==
    IF hyperlinks = <<>> THEN <<>>
    ELSE (IF hyperlinks[1].at = at THEN hyperlinks[1].text ELSE <<>>)
         \o ConcatLinks(Tail(hyperlinks), at)

RECURSIVE ConcatFrom(_, _)
\* the text of the paragraph from its run k + 1 on
ConcatFrom(p, k) ==
    ConcatLinks(p.hyperlinks, k)
    \o (IF k >= Len(p.runs) THEN <<>> ELSE p.runs[k + 1].text \o ConcatFrom(p, k + 1))

\* paragraph.text: the text of the runs and of the hyperlinks, in document order
ParaText(p) == IF p.hyperlinks = <<>> THEN ConcatRuns(p.runs) ELSE ConcatFrom(p, 0)

LowerChar(c) ==
    CASE c = "H" -> "h" [] c = "T" -> "t" [] c = "L" -> "l" [] c = "N" -> "n"
      [] c = "B" -> "b" [] OTHER -> c

\* paragraph.style.name.lower() if paragraph.style and paragraph.style.name else ''
StyleName(p) == [i \in 1..Len(p.style) |-> LowerChar(p.style[i])]

s_title == <<"t", "i", "t", "l", "e">>
s_heading == <<"h", "e", "a", "d", "i", "n", "g">>
s_heading_1 == <<"h", "e", "a", "d", "i", "n", "g", " ", "1">>
s_list == <<"l", "i", "s", "t">>
s_bullet == <<"b", "u", "l", "l", "e", "t">>
s_number == <<"n", "u", "m", "b", "e", "r">>
s_ordered == <<"o", "r", "d", "e", "r", "e", "d">>

-----------------------------------------------------------------------------
(* utils.py *)

\* re.search(r'heading\s*(\d+)', style_name): min(int(group 1), 6), else 1
extract_heading_level(style_name) ==
    LET at == {i \in 0..(Len(style_name) - Len(s_heading)) :
                 /\ SubSeq(style_name, i + 1, i + Len(s_heading)) = s_heading
                 /\ LET rest == Drop(style_name, i + Len(s_heading))
                    IN  LeadCount(Drop(rest, LeadCount(rest, WS)), DIGITS) >= 1}
    IN  IF at = {} THEN 1
        ELSE LET rest == Drop(style_name, SetMin(at) + Len(s_heading))
                 num == Drop(rest, LeadCount(rest, WS))
             IN  Min2(DigitsVal(Take(num, LeadCount(num, DIGITS))), 6)

RECURSIVE RemoveAll(_, _)
\* re.sub(pat, '', s) for a literal pat
RemoveAll(s, pat) ==
    IF Len(s) < Len(pat) THEN s
    ELSE IF Take(s, Len(pat)) = pat THEN RemoveAll(Drop(s, Len(pat)), pat)
    ELSE <<s[1]>> \o RemoveAll(Tail(s), pat)

MergeNothing(text) == text

merge_adjacent_tags(text) ==
    RemoveAll(text, <<"<", "/", "u", ">", "<", "u", ">">>)

list_markers ==
    <<ch_bullet, ch_white_bullet, ch_black_small_square, ch_white_small_square,
      ch_triangular_bullet, "-", "*", "+">>

is_list_marker_text(text) ==
    \E k \in 1..Len(list_markers) : StartsWith(text, <<list_markers[k], " ">>)

\* length of the prefix matching ^\d+[puncts]\s+ (0: no match)
NumberedPrefix(text, puncts) ==
    LET d == LeadCount(text, DIGITS)
        rest == Drop(text, d)
    IN  IF d >= 1 /\ rest # <<>> /\ rest[1] \in puncts /\ LeadCount(Tail(rest), WS) >= 1
        THEN d + 1 + LeadCount(Tail(rest), WS)
        ELSE 0

\* the class [\.U+FF09] of the numbered-list pattern
NUMBERED_PUNCT == {".", ch_fullwidth_rparen}

NumberedDotOnly(text) == NumberedPrefix(text, {"."}) > 0

is_numbered_list_text(text) == NumberedPrefix(text, NUMBERED_PUNCT) > 0

RECURSIVE RemoveMarkersFrom(_, _)
RemoveMarkersFrom(text, k) ==
    IF k > Len(list_markers) THEN text
    ELSE IF StartsWith(text, <<list_markers[k], " ">>)
         THEN RemoveMarkersFrom(Strip(Tail(text)), k + 1)
         ELSE RemoveMarkersFrom(text, k + 1)

remove_list_markers(text) ==
    RemoveMarkersFrom(Drop(text, NumberedPrefix(text, NUMBERED_PUNCT)), 1)

-----------------------------------------------------------------------------
(* utils.py: font-size hierarchy *)

RECURSIVE RunSizes(_)
\* the sizes of the runs that have one, in run order
RunSizes(runs) ==
    IF runs = <<>> THEN <<>>
    ELSE (IF runs[1].size # 0 THEN <<runs[1].size>> ELSE <<>>) \o RunSizes(Tail(runs))

CountOf(seq, x) == Cardinality({i \in 1..Len(seq) : seq[i] = x})
FirstAt(seq, x) == SetMin({i \in 1..Len(seq) : seq[i] = x})

\* Counter(seq).most_common(1)[0][0]: the most frequent, the earliest among equals
MostCommon(seq) ==
    CHOOSE x \in {seq[i] : i \in 1..Len(seq)} :
        \A y \in {seq[i] : i \in 1..Len(seq)} :
            \/ CountOf(seq, x) > CountOf(seq, y)
            \/ CountOf(seq, x) = CountOf(seq, y) /\ FirstAt(seq, x) <= FirstAt(seq, y)

\* 0 stands for None
get_paragraph_font_size(p) ==
    IF RunSizes(p.runs) = <<>> THEN 0 ELSE MostCommon(RunSizes(p.runs))

is_paragraph_uniform_font_size(p) ==
    Cardinality({p.runs[i].size : i \in {j \in 1..Len(p.runs) :
        p.runs[j].size # 0 /\ Strip(p.runs[j].text) # <<>>}}) <= 1

\* a hierarchy that ranks every size, the baseline and the smaller ones included
AnalyzeRankingAll(sizes) ==
    LET unique == {sizes[i] : i \in 1..Len(sizes)}
        rank(x) == Cardinality({y \in unique : y > x}) + 1
    IN  [x \in unique |-> IF rank(x) <= 6 THEN rank(x) ELSE 0]

\* the function size -> level (0: normal text); its domain is empty for {}
analyze_font_size_hierarchy(sizes) ==
    LET unique == {sizes[i] : i \in 1..Len(sizes)}
        baseline_size == MostCommon(sizes)
        above == {x \in unique : x > baseline_size}
        rank(x) == Cardinality({y \in above : y > x}) + 1
    IN  IF sizes = <<>> THEN [x \in {} |-> 0]
        ELSE IF Cardinality(unique) = 1 THEN [x \in unique |-> 0]
        ELSE [x \in unique |-> IF x > baseline_size /\ rank(x) <= 6 THEN rank(x) ELSE 0]

RECURSIVE Candidates(_)
\* the font sizes find_font_size_based_headings collects, in document order
Candidates(d) ==
    IF d = <<>> THEN <<>>
    ELSE LET p == d[1]
             take == /\ p.tag = "p"
                     /\ Strip(ParaText(p)) # <<>>
                     /\ ~Contains(StyleName(p), s_heading)
                     /\ ~Contains(StyleName(p), s_title)
                     /\ is_paragraph_uniform_font_size(p)
                     /\ get_paragraph_font_size(p) # 0
         IN  (IF take THEN <<get_paragraph_font_size(p)>> ELSE <<>>) \o Candidates(Tail(d))

find_font_size_based_headings(d) == analyze_font_size_hierarchy(Candidates(d))

-----------------------------------------------------------------------------
(* list_processor.py *)

is_list_paragraph(p) ==
    \/ p.numPr # <<>>
    \/ Contains(StyleName(p), s_list)
    \/ Contains(StyleName(p), s_bullet)
    \/ is_list_marker_text(Strip(ParaText(p)))
    \/ is_numbered_list_text(Strip(ParaText(p)))

\* a ValueError of int() is caught by the except clause: level 0
_get_list_level(p) ==
    LET text == Strip(ParaText(p))
        fromText ==
            IF StartsWith(text, <<"o", "\t">>) \/ StartsWith(text, <<"o", " ">>) THEN 1
            ELSE IF StartsWith(text, <<ch_black_small_square>>)
                    \/ StartsWith(text, <<ch_white_bullet>>) THEN 1
            ELSE IF StartsWith(text, <<"\t">>) THEN CountChar(text, "\t")
            ELSE 0
    IN  IF p.numPr # <<>> /\ p.numPr[1] # <<>>
        THEN IF ParseInt(p.numPr[1][1]) = <<>> THEN 0
             ELSE ParseInt(p.numPr[1][1])[1]
        ELSE IF p.ind # <<>> /\ p.ind[1] # <<>>
        THEN IF ParseInt(p.ind[1]) = <<>> THEN 0
             ELSE Min2(Max2(0, ParseInt(p.ind[1])[1] \div 720), 5)
        ELSE fromText

_determine_list_type(text, style_name) ==
    IF is_numbered_list_text(text) THEN TRUE
    ELSE /\ Contains(style_name, s_list) \/ Contains(style_name, s_bullet)
         /\ ~is_list_marker_text(text)
         /\ Contains(style_name, s_number) \/ Contains(style_name, s_ordered)

\* list state: [in_list, list_type, list_counters, current_list_level]
CounterGet(counters, level, default) ==
    IF level \in DOMAIN counters THEN counters[level] ELSE default
CounterSet(counters, level, n) ==
    [l \in DOMAIN counters \cup {level} |-> IF l = level THEN n ELSE counters[l]]

EndListClearing(ls) ==
    [ls EXCEPT !.in_list = FALSE, !.list_type = "none", !.list_counters = [l \in {} |-> 0]]

\* lines 148-151
end_list(ls) == [ls EXCEPT !.in_list = FALSE, !.list_type = "none"]

DigitChar(n) ==
    CASE n = 0 -> "0" [] n = 1 -> "1" [] n = 2 -> "2" [] n = 3 -> "3" [] n = 4 -> "4"
      [] n = 5 -> "5" [] n = 6 -> "6" [] n = 7 -> "7" [] n = 8 -> "8" [] n = 9 -> "9"

RECURSIVE IntToStr(_)
\* str(n) for n >= 0
IntToStr(n) == IF n < 10 THEN <<DigitChar(n)>> ELSE IntToStr(n \div 10) \o <<DigitChar(n % 10)>>

-----------------------------------------------------------------------------
(* formatting.py *)

ConvertRun(run) ==
    LET t0 == run.text
        t1 == IF run.bold THEN <<"*", "*">> \o t0 \o <<"*", "*">> ELSE t0
        t2 == IF run.italic THEN <<"*">> \o t1 \o <<"*">> ELSE t1
        t3 == IF run.underline THEN <<"<", "u", ">">> \o t2 \o <<"<", "/", "u", ">">> ELSE t2
    IN  IF t0 = <<>> THEN <<>> ELSE t3

RECURSIVE ConvertRuns(_)
ConvertRuns(runs) == IF runs = <<>> THEN <<>> ELSE ConvertRun(runs[1]) \o ConvertRuns(Tail(runs))

u_docs == <<"h", "t", "t", "p", ":", "/", "/", "d">>
u_site == <<"h", "t", "t", "p", ":", "/", "/", "s">>

\* paragraph.part.rels: relationship id -> target_ref; an id outside it is a
\* KeyError
PartRels == [rId1 |-> u_docs, rId2 |-> u_site]

\* lines 124-142: the link a hyperlink element gives, <<>> when it gives none
\* (no r:id, no such relationship, no text but blanks)
HyperlinkResult(h) ==
    IF h.rel_id = <<>> \/ h.rel_id[1] \notin DOMAIN PartRels \/ Strip(h.text) = <<>>
    THEN <<>>
    ELSE <<"[">> \o Strip(h.text) \o <<"]", "(">> \o PartRels[h.rel_id[1]] \o <<")">>

\* the link of the first hyperlink element that gives one, <<>> (None) if none
_process_paragraph_hyperlinks(p) ==
    IF \A k \in 1..Len(p.hyperlinks) : HyperlinkResult(p.hyperlinks[k]) = <<>>
    THEN <<>>
    ELSE HyperlinkResult(p.hyperlinks[
             SetMin({k \in 1..Len(p.hyperlinks) : HyperlinkResult(p.hyperlinks[k]) # <<>>})])

\* the paragraph formatted from its runs, whatever custom_text is
FormatIgnoringCustomText(p, custom_text) ==
    IF _process_paragraph_hyperlinks(p) # <<>> THEN _process_paragraph_hyperlinks(p)
    ELSE merge_adjacent_tags(ConvertRuns(p.runs))

\* custom_text <<>> stands for None (and for '', which the code treats alike).
\* _get_hyperlink (lines 47, 58) finds no hyperlink for a run of paragraph.runs:
\* such a run is a child of the paragraph, neither inside a hyperlink element
\* nor below one.
convert_paragraph_formatting(p, custom_text) ==
    IF custom_text # <<>> THEN custom_text
    ELSE IF _process_paragraph_hyperlinks(p) # <<>> THEN _process_paragraph_hyperlinks(p)
    ELSE merge_adjacent_tags(ConvertRuns(p.runs))

-----------------------------------------------------------------------------
(* list_processor.py: convert_list_item *)

\* line 122: start of a new list, or the list type changed
IsNewList(ls, current_list_type) ==
    ~ls.in_list \/ ls.list_type # current_list_type

NextCounterStuck(counter) == counter

\* line 138
NextCounter(counter) == counter + 1

CountersResetAll(counters, list_level, counter) ==
    [l \in {list_level} |-> counter + 1]

\* line 138: only the item's own level is written
CountersAfterItem(counters, list_level, counter) ==
    CounterSet(counters, list_level, NextCounter(counter))

\* lines 122-146, given the level, the type and the counters after line 131
EmitListItem(p, cleaned_text, list_level, is_ordered, c1) ==
    [ls |-> [in_list |-> TRUE,
             list_type |-> IF is_ordered THEN "ordered" ELSE "unordered",
             list_counters |-> IF is_ordered
                               THEN CountersAfterItem(c1, list_level, CounterGet(c1, list_level, 1))
                               ELSE c1,
             current_list_level |-> list_level],
     line |-> Repeat(" ", 2 * list_level)
              \o (IF is_ordered THEN IntToStr(CounterGet(c1, list_level, 1)) \o <<".">>
                  ELSE <<"-">>)
              \o <<" ">> \o convert_paragraph_formatting(p, cleaned_text),
     level |-> list_level,
     ordered |-> is_ordered,
     ordinal |-> IF is_ordered THEN CounterGet(c1, list_level, 1) ELSE 0]

ListItemOfType(p, ls, text, list_level, is_ordered) ==
    EmitListItem(p, remove_list_markers(text), list_level, is_ordered,
                 IF IsNewList(ls, IF is_ordered THEN "ordered" ELSE "unordered") /\ is_ordered
                 THEN CounterSet(ls.list_counters, list_level, 1)
                 ELSE ls.list_counters)

\* the new list state, the emitted line, and the item's level, type and ordinal
convert_list_item(p, ls) ==
    ListItemOfType(p, ls, Strip(ParaText(p)), _get_list_level(p),
                   _determine_list_type(Strip(ParaText(p)), StyleName(p)))

-----------------------------------------------------------------------------
(* paragraph_processor.py *)

\* f"image_{len(images_found) + 1:03d}.png"
GenericName(images_found) ==
    <<"i", "m", "a", "g", "e", "_">>
    \o Repeat("0", 3 - Len(IntToStr(Len(images_found) + 1)))
    \o IntToStr(Len(images_found) + 1) \o <<".", "p", "n", "g">>

RECURSIVE BlipLoop(_, _, _)
\* src/main.py lines 485-502: a blip whose r:embed is in image_map names the
\* mapped file, any other r:embed a generic name when images were extracted
BlipLoop(blips, k, images_found) ==
    IF k > Len(blips) THEN images_found
    ELSE IF blips[k] # <<>> /\ blips[k][1] \in DOMAIN image_map
    THEN BlipLoop(blips, k + 1, Append(images_found, image_map[blips[k][1]]))
    ELSE IF blips[k] # <<>> /\ image_counter > 0
    THEN BlipLoop(blips, k + 1, Append(images_found, GenericName(images_found)))
    ELSE BlipLoop(blips, k + 1, images_found)

RECURSIVE DrawingLoop(_, _, _)
\* src/main.py lines 476-509
DrawingLoop(drawings, k, images_found) ==
    IF k > Len(drawings) THEN images_found
    ELSE IF drawings[k] = <<>> /\ image_counter > 0
    THEN DrawingLoop(drawings, k + 1, Append(images_found, GenericName(images_found)))
    ELSE DrawingLoop(drawings, k + 1, BlipLoop(drawings[k], 1, images_found))

\* src/main.py lines 467-537: images_found as file names; the drawing elements
\* stand in the paragraph's runs, where lines 524-535 find them again
ImagesFound(p) ==
    IF p.drawings # <<>> /\ image_counter > 0 /\ DrawingLoop(p.drawings, 1, <<>>) = <<>>
    THEN <<GenericName(<<>>)>>
    ELSE DrawingLoop(p.drawings, 1, <<>>)

\* src/main.py lines 465-542: the reference lines of the paragraph's drawing
\* elements
process_paragraph_images(p) ==
    Join([k \in 1..Len(ImagesFound(p)) |->
            <<"![Image](./assets/">> \o ImagesFound(p)[k] \o <<")">>], <<"\n">>)

SECTION_CLASS ==
    {"U+5165", "U+95E8", "|", "U+4ECB", "U+7ECD", "U+6982", "U+8FF0",
     "U+57FA", "U+7840", "U+539F", "U+7406", "U+8BBE", "U+8BA1",
     "U+5206", "U+6790", "U+65B9", "U+6CD5", "U+7CFB", "U+7EDF",
     "U+7ED3", "U+6784", "U+6750", "U+6599", "U+5DE5", "U+827A"}
SECTION_STOP ==
    {"U+FF0C", "U+3002", "U+FF01", "U+FF1F", "U+FF1B", "U+FF1A"}
section_keywords ==
    {<<"U+5165", "U+95E8">>, <<"U+4ECB", "U+7ECD">>,
     <<"U+6982", "U+8FF0">>, <<"U+57FA", "U+7840">>,
     <<"U+539F", "U+7406">>, <<"U+8BBE", "U+8BA1">>,
     <<"U+5206", "U+6790">>, <<"U+65B9", "U+6CD5">>,
     <<"U+7CFB", "U+7EDF">>, <<"U+7ED3", "U+6784">>,
     <<"U+6750", "U+6599">>, <<"U+5DE5", "U+827A">>,
     <<"U+8BFE", "U+7A0B">>, <<"U+57F9", "U+8BAD">>,
     <<"U+5B66", "U+4E60">>, <<"U+77E5", "U+8BC6">>,
     <<"U+6280", "U+80FD">>, <<"U+7406", "U+8BBA">>,
     <<"U+5B9E", "U+8DF5">>, <<"U+5E94", "U+7528">>}

_is_section_number(text) ==
    LET n == NumberedPrefix(text, {"."})
        d == LeadCount(text, DIGITS)
        rest == Drop(text, d + 2)
    IN  /\ n > 0
        /\ \/ \E k \in 1..Len(rest) :
                 /\ rest[k] \in SECTION_CLASS
                 /\ \A i \in 1..(k - 1) : rest[i] \notin SECTION_STOP
           \/ \E kw \in section_keywords : Contains(text, kw)

CJK_NUMERALS ==
    {"U+4E00", "U+4E8C", "U+4E09", "U+56DB", "U+4E94", "U+516D",
     "U+4E03", "U+516B", "U+4E5D", "U+5341"}
ch_di == "U+7B2C"
CHAPTER_UNITS == {"U+7AE0", "U+8282", "U+90E8", "U+5206"}
HEADING_START_CLASS ==
    {"U+8BFE", "U+7A0B", "|", "U+57F9", "U+8BAD", "U+5185", "U+5BB9",
     "U+8BF4", "U+660E", "U+5DE5", "U+5177", "U+8D44", "U+6E90",
     "U+8003", "U+6838"}
heading_starters ==
    {<<"U+6700", "U+7EC8", "U+8003", "U+6838", "U+FF1A">>,
     <<"U+8F6F", "U+4EF6", "U+5DE5", "U+5177">>,
     <<"U+5728", "U+7EBF", "U+8D44", "U+6E90">>,
     <<"U+5177", "U+4F53", "U+5185", "U+5BB9">>,
     <<"U+57F9", "U+8BAD", "U+8BFE", "U+7A0B">>,
     <<"U+6838", "U+5FC3", "U+77E5", "U+8BC6">>}
heading_keywords ==
    {<<"U+5165", "U+95E8">>, <<"U+57FA", "U+7840">>,
     <<"U+8BFE", "U+7A0B">>, <<"U+57F9", "U+8BAD">>,
     <<"U+5DE5", "U+5177">>, <<"U+8F6F", "U+4EF6">>,
     <<"U+8D44", "U+6E90">>, <<"U+6982", "U+8FF0">>,
     <<"U+4ECB", "U+7ECD">>, <<"U+8BF4", "U+660E">>,
     <<"U+5185", "U+5BB9">>, <<"U+8003", "U+6838">>}

\* ^[CJK_NUMERALS]+ followed by the ideographic comma
StartsWithCjkNumber(text) ==
    LET n == LeadCount(text, CJK_NUMERALS)
    IN  n >= 1 /\ Len(text) > n /\ text[n + 1] = ch_ideographic_comma

_looks_like_heading(text) ==
    \/ StartsWithCjkNumber(text)
    \/ /\ text # <<>> /\ text[1] = ch_di
       /\ LET d == LeadCount(Tail(text), DIGITS)
          IN  d >= 1 /\ Len(text) > d + 1 /\ text[d + 2] \in CHAPTER_UNITS
    \/ text # <<>> /\ text[1] \in HEADING_START_CLASS
    \/ \E st \in heading_starters : StartsWith(text, st)
    \/ /\ Len(Strip(text)) <= 100
       /\ ~(text # <<>> /\ text[Len(text)] = "U+3002")
       /\ \E kw \in heading_keywords : Contains(text, kw)

RECURSIVE RunLen(_, _)
\* the summed len(run.text.strip()) over the runs (only the bold ones if boldOnly)
RunLen(runs, boldOnly) ==
    IF runs = <<>> THEN 0
    ELSE (IF boldOnly /\ ~runs[1].bold THEN 0 ELSE Len(Strip(runs[1].text)))
         + RunLen(Tail(runs), boldOnly)

_is_formatted_heading(p, text) ==
    /\ Strip(text) # <<>>
    /\ ~is_list_paragraph(p)
    /\ RunLen(p.runs, TRUE) > 0
    /\ RunLen(p.runs, FALSE) > 0
    /\ 10 * RunLen(p.runs, TRUE) >= 8 * RunLen(p.runs, FALSE)
    /\ _looks_like_heading(text)

_is_font_size_heading(p, size_levels) ==
    /\ get_paragraph_font_size(p) # 0
    /\ CounterGet(size_levels, get_paragraph_font_size(p), 0) > 0

\* a heading level that leaves the Title offset out
ConvertHeadingLevelNoOffset(style_name, offset) ==
    Min2(extract_heading_level(style_name), 6)

\* lines 121-127
_convert_heading_level(style_name, offset) ==
    Min2(extract_heading_level(style_name) + offset, 6)

\* lines 148-154
_convert_font_size_heading_level(p, size_levels, offset) ==
    Min2(CounterGet(size_levels, get_paragraph_font_size(p), 1) + offset, 6)

\* lines 246-258
_convert_formatted_heading_level(text, offset) ==
    Min2((IF StartsWithCjkNumber(text) THEN 2 ELSE 3) + offset, 6)

\* lines 271-277
_convert_section_number_heading_level(offset) == Min2(3 + offset, 6)

HeadingLines(level, text) == << Repeat("#", level) \o <<" ">> \o text, <<>> >>

Emitted(lines, ls, rule, level, ordinal, ended) ==
    [lines |-> lines, ls |-> ls, rule |-> rule, level |-> level,
     ordinal |-> ordinal, ended |-> ended]

EmitItem(lines1, item, ends) ==
    Emitted(Append(lines1, item.line), item.ls,
            IF item.ordered THEN "ordered" ELSE "unordered",
            item.level, item.ordinal, ends)

\* lines 81-117, after the list has been ended where it had to be
EmitByRule(p, lines1, ls1, offset, size_levels, text, images_text, style_name, is_list, ends) ==
    IF Contains(style_name, s_heading)
    THEN Emitted(lines1 \o HeadingLines(_convert_heading_level(style_name, offset), text),
                 ls1, "heading", _convert_heading_level(style_name, offset), 0, ends)
    ELSE IF DOMAIN size_levels # {} /\ _is_font_size_heading(p, size_levels)
    THEN Emitted(lines1 \o HeadingLines(
                     _convert_font_size_heading_level(p, size_levels, offset), text),
                 ls1, "font",
                 _convert_font_size_heading_level(p, size_levels, offset), 0, ends)
    ELSE IF _is_formatted_heading(p, text)
    THEN Emitted(lines1 \o HeadingLines(
                     _convert_formatted_heading_level(text, offset), Strip(text)),
                 ls1, "formatted", _convert_formatted_heading_level(text, offset), 0, ends)
    ELSE IF _is_section_number(text)
    THEN Emitted(lines1 \o HeadingLines(
                     _convert_section_number_heading_level(offset), Strip(text)),
                 ls1, "section", _convert_section_number_heading_level(offset), 0, ends)
    ELSE IF is_list
    THEN EmitItem(lines1, convert_list_item(p, ls1), ends)
    ELSE Emitted(lines1
                 \o (IF images_text # <<>> THEN <<images_text, <<>>>> ELSE <<>>)
                 \o (IF text # <<>>
                     THEN <<convert_paragraph_formatting(p, <<>>), <<>>>> ELSE <<>>),
                 ls1, "plain", 0, 0, ends)

\* lines 71-79: a non-list paragraph met in a list ends the list
EndListIfLeft(p, lines, ls, offset, size_levels, text, images_text, style_name, is_list) ==
    IF ls.in_list /\ ~is_list
    THEN EmitByRule(p, Append(lines, <<>>), end_list(ls), offset,
                    size_levels, text, images_text, style_name, is_list, TRUE)
    ELSE EmitByRule(p, lines, ls, offset, size_levels, text,
                    images_text, style_name, is_list, FALSE)

\* lines 50-73
ConvertText(p, lines, ls, offset, size_levels, text, images_text, style_name) ==
    IF images_text # <<>> /\ (text = <<>> \/ Len(text) < 3)
    THEN Emitted(lines \o <<images_text, <<>>>>, ls, "image", 0, 0, FALSE)
    ELSE IF text = <<>> /\ images_text = <<>>
    THEN Emitted(IF lines # <<>> /\ lines[Len(lines)] # <<>> THEN Append(lines, <<>>) ELSE lines,
                 ls, "empty", 0, 0, FALSE)
    ELSE IF Contains(style_name, s_title)
    THEN Emitted(lines, ls, "skipped", 0, 0, FALSE)
    ELSE EndListIfLeft(p, lines, ls, offset, size_levels, text, images_text,
                       style_name, is_list_paragraph(p) /\ ~_is_section_number(text))

\* what convert_paragraph does to the buffer and the list state, and the rule it took
convert_paragraph(p, lines, ls, offset, size_levels) ==
    ConvertText(p, lines, ls, offset, size_levels,
                Strip(ParaText(p)), process_paragraph_images(p), StyleName(p))

-----------------------------------------------------------------------------
(* src/main.py: _convert_table (docx_converter's TableProcessor.convert_table) *)

\* cell.text.strip().replace('\n', ' ')
CellText(cell) ==
    LET t == Strip(cell) IN [i \in 1..Len(t) |-> IF t[i] = "\n" THEN " " ELSE t[i]]

RowLine(cells) ==
    <<"|", " ">> \o Join([i \in 1..Len(cells) |-> CellText(cells[i])], <<" ", "|", " ">>)
    \o <<" ", "|">>

\* a separator of one column whatever the row
SeparatorLineOneColumn(cells) == <<"|", " ", "-", "-", "-", " ", "|">>

SeparatorLine(cells) ==
    <<"|">> \o Join([i \in 1..Len(cells) |-> <<" ", "-", "-", "-", " ", "|">>], <<>>)

RECURSIVE TableRows(_, _)
TableRows(rows, i) ==
    IF i > Len(rows) THEN <<>>
    ELSE <<RowLine(rows[i])>>
         \o (IF i = 1 THEN <<SeparatorLine(rows[i])>> ELSE <<>>)
         \o TableRows(rows, i + 1)

convert_table(rows) == << <<>> >> \o TableRows(rows, 1) \o << <<>> >>

-----------------------------------------------------------------------------
(* document_processor.py *)

IsTitleParagraph(p) ==
    p.tag = "p" /\ Contains(StyleName(p), s_title) /\ Strip(ParaText(p)) # <<>>

_check_for_title_style(d) == \E i \in 1..Len(d) : IsTitleParagraph(d[i])

_check_for_heading_styles(d) ==
    \E i \in 1..Len(d) :
        d[i].tag = "p" /\ Contains(StyleName(d[i]), s_heading) /\ Strip(ParaText(d[i])) # <<>>

\* line 44
HeadingOffset(d) == IF _check_for_title_style(d) THEN 1 ELSE 0

\* lines 40-41: {} unless no heading style is found
FontSizeHeadings(d) ==
    IF _check_for_heading_styles(d) THEN [x \in {} |-> 0]
    ELSE find_font_size_based_headings(d)

ListState == [in_list |-> in_list, list_type |-> list_type,
              list_counters |-> list_counters,
              current_list_level |-> current_list_level]

\* a paragraph that the list tracker counts as a list item
IsListItem(p) == is_list_paragraph(p) /\ ~_is_section_number(Strip(ParaText(p)))

LogEntry(rule, level, ordinal, ended, lines_after, ls_after) ==
    [rule |-> rule, level |-> level, ordinal |-> ordinal, ended |-> ended,
     is_list |-> doc[pos].tag = "p" /\ IsListItem(doc[pos]),
     has_text |-> doc[pos].tag = "p" /\ Strip(ParaText(doc[pos])) # <<>>,
     was_in_list |-> in_list,
     type_before |-> list_type,
     in_list_after |-> ls_after.in_list,
     list_type_after |-> ls_after.list_type,
     counters_before |-> list_counters,
     counters_after |-> ls_after.list_counters,
     n_before |-> Len(output_lines),
     n_after |-> Len(lines_after)]

\* lines 58-61
EmitTitle ==
    /\ pc = "walk" /\ pos <= Len(doc)
    /\ IsTitleParagraph(doc[pos])
    /\ output_lines' = output_lines \o HeadingLines(1, Strip(ParaText(doc[pos])))
    /\ log' = Append(log, LogEntry("title", 1, 0, FALSE, output_lines', ListState))
    /\ pos' = pos + 1
    /\ UNCHANGED <<bumpvars, pathvars, heading_offset, font_size_headings, filevars,
                   doc, pc, in_list, list_type, list_counters, current_list_level,
                   first_heading_found, markdown_content, emitted>>

IsPromoted(p) ==
    /\ p.tag = "p"
    /\ ~IsTitleParagraph(p)
    /\ ~_check_for_title_style(doc)
    /\ ~first_heading_found
    /\ Contains(StyleName(p), s_heading_1)
    /\ Strip(ParaText(p)) # <<>>

\* lines 64-68
PromoteFirstHeading ==
    /\ pc = "walk" /\ pos <= Len(doc)
    /\ IsPromoted(doc[pos])
    /\ output_lines' = output_lines \o HeadingLines(1, Strip(ParaText(doc[pos])))
    /\ first_heading_found' = TRUE
    /\ log' = Append(log, LogEntry("promoted", 1, 0, FALSE, output_lines', ListState))
    /\ pos' = pos + 1
    /\ UNCHANGED <<bumpvars, pathvars, heading_offset, font_size_headings, filevars,
                   doc, pc, in_list, list_type, list_counters, current_list_level,
                   markdown_content, emitted>>

\* line 70
ConvertParagraph ==
    /\ pc = "walk" /\ pos <= Len(doc)
    /\ doc[pos].tag = "p"
    /\ ~IsTitleParagraph(doc[pos])
    /\ ~IsPromoted(doc[pos])
    /\ LET r == convert_paragraph(doc[pos], output_lines, ListState,
                                  heading_offset, font_size_headings)
       IN  /\ output_lines' = r.lines
           /\ in_list' = r.ls.in_list
           /\ list_type' = r.ls.list_type
           /\ list_counters' = r.ls.list_counters
           /\ current_list_level' = r.ls.current_list_level
           /\ log' = Append(log, LogEntry(r.rule, r.level, r.ordinal, r.ended, r.lines, r.ls))
    /\ pos' = pos + 1
    /\ UNCHANGED <<bumpvars, pathvars, heading_offset, font_size_headings, filevars,
                   doc, pc, first_heading_found, markdown_content, emitted>>

\* lines 72-74
ConvertTable ==
    /\ pc = "walk" /\ pos <= Len(doc)
    /\ doc[pos].tag = "tbl"
    /\ output_lines' = output_lines \o convert_table(doc[pos].rows)
    /\ log' = Append(log, LogEntry("table", 0, 0, FALSE, output_lines', ListState))
    /\ pos' = pos + 1
    /\ UNCHANGED <<bumpvars, pathvars, heading_offset, font_size_headings, filevars,
                   doc, pc, in_list, list_type, list_counters, current_list_level,
                   first_heading_found, markdown_content, emitted>>

\* line 77: the post-pass that ends convert_document
FixHeadingLevels ==
    /\ pc = "walk" /\ pos > Len(doc)
    /\ emitted' = output_lines
    /\ output_lines' = _fix_heading_levels(output_lines)
    /\ pc' = "clean"
    /\ UNCHANGED <<bumpvars, pathvars, heading_offset, font_size_headings, filevars,
                   doc, pos, in_list, list_type, list_counters, current_list_level,
                   first_heading_found, markdown_content, log>>

\* converter.py line 96
CleanMarkdownContent ==
    /\ pc = "clean"
    /\ markdown_content' = clean_markdown_content(output_lines)
    /\ pc' = "done"
    /\ UNCHANGED <<bumpvars, pathvars, heading_offset, font_size_headings, filevars,
                   doc, pos, output_lines, in_list, list_type, list_counters,
                   current_list_level, first_heading_found, emitted, log>>

Next ==
    \/ EmitTitle
    \/ PromoteFirstHeading
    \/ ConvertParagraph
    \/ ConvertTable
    \/ FixHeadingLevels
    \/ CleanMarkdownContent

-----------------------------------------------------------------------------
(* src/main.py: _extract_images *)

UPPER == <<"A", "B", "C", "D", "E", "F", "G", "H", "I", "J", "K", "L", "M",
           "N", "O", "P", "Q", "R", "S", "T", "U", "V", "W", "X", "Y", "Z">>
LOWER == <<"a", "b", "c", "d", "e", "f", "g", "h", "i", "j", "k", "l", "m",
           "n", "o", "p", "q", "r", "s", "t", "u", "v", "w", "x", "y", "z">>

\* str.lower()
Lower(text) ==
    [i \in 1..Len(text) |->
        IF \E k \in 1..26 : UPPER[k] = text[i]
        THEN LOWER[CHOOSE k \in 1..26 : UPPER[k] = text[i]] ELSE text[i]]

\* the extensions the fallback scan extracts (line 450)
ALLOWED_EXT ==
    { <<".", "p", "n", "g">>, <<".", "j", "p", "g">>, <<".", "j", "p", "e", "g">>,
      <<".", "g", "i", "f">>, <<".", "b", "m", "p">>, <<".", "s", "v", "g">> }

\* a path inside the container: whether it lies under the media folder, the
\* file's base name and its extension (os.path.splitext(...)[1])
Path(media, file, ext) == [media |-> media, file |-> file, ext |-> ext]

\* an entry of the zip file list; fault says how reading it fails: "none",
\* "open" (docx_zip.open raises) or "copy" (the copy raises after the target
\* file was created)
Entry(path, fault) == [path |-> path, fault |-> fault]

\* a Relationship element: Id, whether 'image' is in its Type, Target (<<>>: none)
Rel(id, image_type, target) == [id |-> id, image_type |-> image_type, target |-> target]

\* the container: the relationship manifest ("missing", "unparseable" or
\* "parsed" into rels) and the zip file list
Archive(manifest, rels, filelist) ==
    [manifest |-> manifest, rels |-> rels, filelist |-> filelist]

\* f"image_{counter:03d}{file_ext}"
ImageName(counter, file_ext) ==
    <<"i", "m", "a", "g", "e", "_">>
    \o Repeat("0", 3 - Len(IntToStr(counter))) \o IntToStr(counter) \o file_ext

\* the progress of one extraction: counter, map, the files written (complete or
\* not), whether an exception left the loop
Extraction(counter, map, files, raised) ==
    [counter |-> counter, map |-> map, files |-> files, raised |-> raised]

\* a copy that names the file without counting it
CopyImageNoCount(e, entry, rel_id) ==
    Extraction(e.counter, e.map,
               Append(e.files, [name |-> ImageName(e.counter + 1, Lower(entry.path.ext)),
                                complete |-> TRUE, source |-> entry.path]),
               entry.fault # "none")

\* lines 426-439 and 451-458: count, name, open the source, copy it
CopyImage(e, entry, rel_id) ==
    LET counter == e.counter + 1
        name == ImageName(counter, Lower(entry.path.ext))
    IN  IF entry.fault = "open"
        THEN Extraction(counter, e.map, e.files, TRUE)
        ELSE IF entry.fault = "copy"
        THEN Extraction(counter, e.map,
                        Append(e.files, [name |-> name, complete |-> FALSE,
                                         source |-> entry.path]), TRUE)
        ELSE Extraction(counter,
                        IF rel_id = <<>> THEN e.map ELSE CounterSet(e.map, rel_id[1], name),
                        Append(e.files, [name |-> name, complete |-> TRUE,
                                         source |-> entry.path]), FALSE)

\* the entry of the file list a relationship's target names (line 424)
TargetEntry(rel, filelist) ==
    CHOOSE k \in 1..Len(filelist) : filelist[k].path = rel.target[1]

\* lines 418-424
IsExtractable(rel, filelist) ==
    /\ rel.image_type
    /\ rel.target # <<>>
    /\ rel.target[1].media
    /\ \E k \in 1..Len(filelist) : filelist[k].path = rel.target[1]

RECURSIVE ManifestLoop(_, _, _, _)
\* lines 417-441, left at the first exception
ManifestLoop(rels, i, e, filelist) ==
    IF i > Len(rels) \/ e.raised THEN e
    ELSE IF IsExtractable(rels[i], filelist)
    THEN ManifestLoop(rels, i + 1,
                      CopyImage(e, filelist[TargetEntry(rels[i], filelist)], <<rels[i].id>>),
                      filelist)
    ELSE ManifestLoop(rels, i + 1, e, filelist)

RECURSIVE FallbackLoop(_, _, _)
\* lines 446-460, left at the first exception
FallbackLoop(filelist, i, e) ==
    IF i > Len(filelist) \/ e.raised THEN e
    ELSE IF filelist[i].path.media /\ Lower(filelist[i].path.ext) \in ALLOWED_EXT
    THEN FallbackLoop(filelist, i + 1, CopyImage(e, filelist[i], <<>>))
    ELSE FallbackLoop(filelist, i + 1, e)

\* the except clause of line 443: the fallback loop, with the counter and the map
\* as the try block left them
FallbackAfter(e, filelist) ==
    FallbackLoop(filelist, 1, [e EXCEPT !.raised = FALSE]) @@ [fallback |-> TRUE]

\* lines 410-460 once the manifest loop has ended as m
AfterManifest(m, filelist) ==
    IF m.raised THEN FallbackAfter(m, filelist) ELSE m @@ [fallback |-> FALSE]

\* lines 402-463, for a converter that has an assets directory: the counter, the
\* map, the files written, whether the fallback ran, and whether the extraction
\* was given up (the exception caught at line 462)
_extract_images(archive) ==
    IF archive.manifest # "parsed"
    THEN FallbackAfter(Extraction(0, [r \in {} |-> <<>>], <<>>, FALSE), archive.filelist)
    ELSE AfterManifest(ManifestLoop(archive.rels, 1,
                                    Extraction(0, [r \in {} |-> <<>>], <<>>, FALSE),
                                    archive.filelist), archive.filelist)

-----------------------------------------------------------------------------
(* converter.py: the output structure *)

\* a path is the sequence of its components, a component a name and its
\* suffix; a trailing '/' is a last component that is empty, "" is <<>>
Name(stem, suffix) == <<stem, suffix>>
NoName == Name("", "")

\* str.endswith('/')
EndsWithSlash(path) == path # <<>> /\ path[Len(path)] = NoName

\* os.path.dirname
dirname(path) == IF path = <<>> THEN <<>> ELSE SubSeq(path, 1, Len(path) - 1)

\* os.path.join of a path and a relative path
join(path, rel) == IF path = <<>> THEN rel ELSE (IF EndsWithSlash(path) THEN dirname(path) ELSE path) \o rel

\* pathlib's Path(path).stem
stem(path) == IF EndsWithSlash(path) THEN dirname(path)[Len(path) - 1][1] ELSE path[Len(path)][1]

\* the directory a path names, with or without its trailing '/'
Directory(path) == IF EndsWithSlash(path) THEN dirname(path) ELSE path

\* os.path.isdir
isdir(existing, path) == path # <<>> /\ Directory(path) \in existing

\* os.makedirs(path, exist_ok=True): the directory and its missing parents
makedirs(existing, path) == existing \cup {SubSeq(Directory(path), 1, k) : k \in 1..Len(Directory(path))}

\* lines 260-277
_setup_output_structure(existing, in_path, out_path) ==
    LET input_stem == <<Name(stem(in_path), "")>>
        folder == IF out_path # <<>>
                  THEN IF isdir(existing, out_path) \/ EndsWithSlash(out_path)
                       THEN join(out_path, input_stem)
                       ELSE IF dirname(out_path) = <<>> THEN input_stem
                            ELSE dirname(out_path)
                  ELSE input_stem
    IN  [output_folder |-> folder,
         assets_dir |-> join(folder, <<Name("assets", "")>>),
         dirs |-> makedirs(makedirs(existing, folder), join(folder, <<Name("assets", "")>>))]

\* lines 279-293
_get_final_output_path(existing, in_path, out_path, folder) ==
    LET md_name == <<Name(stem(in_path), ".md")>>
    IN  IF out_path # <<>> /\ ~(isdir(existing, out_path) \/ EndsWithSlash(out_path))
        THEN out_path
        ELSE IF folder # <<>> THEN join(folder, md_name) ELSE md_name

\* _write_output, lines 295-302, and _cleanup_empty_assets_dir, lines 304-318:
\* the directories there are once the Markdown file is written
DirsAfterWrite(existing, md_path, assets_path, files) ==
    (IF dirname(md_path) # <<>> THEN makedirs(existing, dirname(md_path)) ELSE existing)
        \ (IF files = <<>> THEN {assets_path} ELSE {})

\* the arguments of a call of convert_file and the directories there are
Arguments(in_path, out_path, existing) ==
    [input_path |-> in_path, output_path |-> out_path, dirs |-> existing]

DefaultArguments == Arguments(<<Name("report", ".docx")>>, <<>>, {})

\* convert_file is called with one of the given arguments
CalledWith(args) ==
    /\ \E a \in args :
           /\ input_path = a.input_path
           /\ output_path = a.output_path
           /\ dirs = a.dirs
    /\ output_folder = <<>>
    /\ assets_dir = <<>>
    /\ final_output_path = <<>>

-----------------------------------------------------------------------------
(* converter.py: convert_file *)

\* an input path: whether the file exists, whether its name ends in .doc, the
\* container behind it and the document python-docx loads from it
InputFile(exists, is_doc, archive, document) ==
    [exists |-> exists, is_doc |-> is_doc, archive |-> archive, document |-> document]

Outcome(kind, markdown) == [call |-> conv, kind |-> kind, markdown |-> markdown, fs |-> fs]

\* a call of convert_file on the next input, by a converter that may have
\* converted before
CallConvertFile ==
    /\ pc \in {"idle", "returned", "raised"}
    /\ conv < Len(inputs)
    /\ conv' = conv + 1
    /\ fs' = {}
    /\ pc' = "start"
    /\ UNCHANGED <<bumpvars, pathvars, doc, pos, output_lines, in_list, list_type, list_counters,
                   current_list_level, first_heading_found, markdown_content,
                   heading_offset, font_size_headings, emitted, log,
                   inputs, image_counter, image_map, assets, extraction, results>>

\* a check of the input that comes after the output structure is set up
CheckInputAfterSetup ==
    /\ pc = "start"
    /\ fs' = fs \cup {"output_folder", "assets_dir"}
    /\ IF inputs[conv].exists
       THEN pc' = "load" /\ UNCHANGED results
       ELSE /\ pc' = "raised"
            /\ results' = Append(results, [Outcome("FileNotFoundError", <<>>) EXCEPT !.fs = fs'])
    /\ UNCHANGED <<bumpvars, pathvars, doc, pos, output_lines, in_list, list_type, list_counters,
                   current_list_level, first_heading_found, markdown_content,
                   heading_offset, font_size_headings, emitted, log,
                   inputs, conv, image_counter, image_map, assets, extraction>>

\* lines 53-56
CheckInputExists ==
    /\ pc = "start"
    /\ IF inputs[conv].exists
       THEN pc' = "setup" /\ UNCHANGED results
       ELSE pc' = "raised" /\ results' = Append(results, Outcome("FileNotFoundError", <<>>))
    /\ UNCHANGED <<bumpvars, pathvars, doc, pos, output_lines, in_list, list_type, list_counters,
                   current_list_level, first_heading_found, markdown_content,
                   heading_offset, font_size_headings, emitted, log,
                   inputs, conv, image_counter, image_map, assets, fs, extraction>>

\* line 59, _setup_output_structure lines 260-277
SetupOutputStructure ==
    /\ pc = "setup"
    /\ fs' = fs \cup {"output_folder", "assets_dir"}
    /\ \E o \in {_setup_output_structure(dirs, input_path, output_path)} :
           /\ output_folder' = o.output_folder
           /\ assets_dir' = o.assets_dir
           /\ dirs' = o.dirs
    /\ pc' = IF inputs[conv].is_doc THEN "doc" ELSE "load"
    /\ UNCHANGED <<bumpvars, input_path, output_path, final_output_path, doc, pos, output_lines, in_list, list_type, list_counters,
                   current_list_level, first_heading_found, markdown_content,
                   heading_offset, font_size_headings, emitted, log,
                   inputs, conv, image_counter, image_map, assets, extraction, results>>

\* lines 63-67 and 114-125: a .doc input is converted in a temporary directory,
\* which the finally clause removes when the external conversion fails
ConvertDocToDocx ==
    /\ pc = "doc"
    /\ \E ok \in BOOLEAN :
           IF ok
           THEN fs' = fs \cup {"temp_dir"} /\ pc' = "load" /\ UNCHANGED results
           ELSE /\ fs' = fs
                /\ pc' = "raised"
                /\ results' = Append(results, Outcome("RuntimeError", <<>>))
    /\ UNCHANGED <<bumpvars, pathvars, doc, pos, output_lines, in_list, list_type, list_counters,
                   current_list_level, first_heading_found, markdown_content,
                   heading_offset, font_size_headings, emitted, log,
                   inputs, conv, image_counter, image_map, assets, extraction>>

\* a list processor that lives on from the call before
KeptListProcessor == ListState

\* ListProcessor.__init__, list_processor.py lines 20-26
NewListProcessor ==
    [in_list |-> FALSE, list_type |-> "none", list_counters |-> [l \in {} |-> 0],
     current_list_level |-> 0]

\* lines 71-86: the document is loaded, the buffer reset and the processors made
LoadDocument ==
    /\ pc = "load"
    /\ doc' = inputs[conv].document
    /\ output_lines' = <<>>
    /\ in_list' = NewListProcessor.in_list
    /\ list_type' = NewListProcessor.list_type
    /\ list_counters' = NewListProcessor.list_counters
    /\ current_list_level' = NewListProcessor.current_list_level
    /\ heading_offset' = 0
    /\ font_size_headings' = [x \in {} |-> 0]
    /\ emitted' = <<>>
    /\ log' = <<>>
    /\ pc' = "extract"
    /\ UNCHANGED <<bumpvars, pathvars, pos, first_heading_found, markdown_content,
                   inputs, conv, image_counter, image_map, assets, fs, extraction, results>>

\* lines 88-90
ExtractImages ==
    /\ pc = "extract"
    /\ \E e \in {_extract_images(inputs[conv].archive)} :
           /\ image_counter' = e.counter
           /\ image_map' = e.map
           /\ assets' = e.files
           /\ extraction' = [fallback |-> e.fallback, given_up |-> e.raised]
    /\ pc' = "analyze"
    /\ UNCHANGED <<bumpvars, pathvars, doc, pos, output_lines, in_list, list_type, list_counters,
                   current_list_level, first_heading_found, markdown_content,
                   heading_offset, font_size_headings, emitted, log,
                   inputs, conv, fs, results>>

\* document_processor.py lines 33-50, the head of convert_document
AnalyzeStyles ==
    /\ pc = "analyze"
    /\ heading_offset' = HeadingOffset(doc)
    /\ font_size_headings' = IF _check_for_heading_styles(doc) THEN font_size_headings
                             ELSE find_font_size_based_headings(doc)
    /\ first_heading_found' = FALSE
    /\ pos' = 1
    /\ pc' = "walk"
    /\ UNCHANGED <<bumpvars, pathvars, doc, output_lines, in_list, list_type, list_counters,
                   current_list_level, markdown_content, emitted, log, filevars>>

\* lines 98-109, _write_output and _cleanup_empty_assets_dir: the Markdown file is
\* written, an empty assets directory removed, the Markdown returned
WriteOutput ==
    /\ pc = "done" /\ conv > 0
    /\ fs' = (fs \cup {"markdown_file"}) \ (IF assets = <<>> THEN {"assets_dir"} ELSE {})
    /\ final_output_path' = _get_final_output_path(dirs, input_path, output_path, output_folder)
    /\ dirs' = DirsAfterWrite(dirs, final_output_path', assets_dir, assets)
    /\ results' = Append(results, [Outcome("returned", markdown_content) EXCEPT !.fs = fs'])
    /\ pc' = "returned"
    /\ UNCHANGED <<bumpvars, input_path, output_path, output_folder, assets_dir, doc, pos, output_lines, in_list, list_type, list_counters,
                   current_list_level, first_heading_found, markdown_content,
                   heading_offset, font_size_headings, emitted, log,
                   inputs, conv, image_counter, image_map, assets, extraction>>

\* convert_file, from the call to the return or the exception
NextFile ==
    \/ CallConvertFile
    \/ CheckInputExists
    \/ SetupOutputStructure
    \/ ConvertDocToDocx
    \/ LoadDocument
    \/ ExtractImages
    \/ AnalyzeStyles
    \/ Next
    \/ WriteOutput

-----------------------------------------------------------------------------
(* Documents *)

MaxBlocks == 4
MaxHeadingBlocks == 3

Plain(text) == Para(<<>>, <<Run(text, FALSE, 0)>>, <<>>, <<>>, 0)
Styled(style, text) == Para(style, <<Run(text, FALSE, 0)>>, <<>>, <<>>, 0)

st_Title == <<"T", "i", "t", "l", "e">>
st_Heading(n) == <<"H", "e", "a", "d", "i", "n", "g", " ", n>>

\* the paragraphs and tables the list documents are made of
ListBlocks ==
    { Plain(<<"1", ".", " ", "a">>),
      Para(<<>>, <<Run(<<"2", ".", " ", "b">>, FALSE, 0)>>, << << <<"1">> >> >>, <<>>, 0),
      Plain(<<ch_bullet, " ", "c">>),
      Plain(<<"d">>),
      Styled(st_Title, <<"T">>),
      Styled(st_Heading("1"), <<"H">>),
      Para(<<>>, <<Run(<<"e">>, FALSE, 0)>>, << << <<"7">> >> >>, <<>>, 0),
      Tbl(<< <<<<"x">>>> >>) }

\* the paragraphs and tables the heading documents are made of
HeadingBlocks ==
    { Styled(st_Title, <<"T">>),
      Styled(st_Heading("1"), <<"A", ".">>),
      Styled(st_Heading("3"), <<"B">>),
      Styled(st_Heading("9"), <<".">>),
      Styled(st_Heading("0"), <<"Z">>),
      Plain(<<"#", "#", "#", "#", " ", "D">>),
      Plain(<<"a", "\n", "\n", "\n", "\n", "b">>),
      Para(<<>>, <<Run(<<"E">>, FALSE, 20)>>, <<>>, <<>>, 0),
      Para(<<>>, <<Run(<<"f">>, FALSE, 10)>>, <<>>, <<>>, 0),
      Para(<<>>, <<Run(<<"U+4E00", ch_ideographic_comma, "x">>, TRUE, 0)>>, <<>>, <<>>, 0),
      Plain(<<"1", ".", " ", "U+6982", "U+8FF0">>),
      Tbl(<< <<<<"x">>, <<"y">>>> >>) }

DocsOver(blocks, n) == UNION {[1..k -> blocks] : k \in 0..n}

\* a walk on its own: a conversion that has reached convert_document's loop,
\* for a container without images
InitState ==
    /\ pos = 1
    /\ pc = "walk"
    /\ output_lines = <<>>
    /\ in_list = FALSE
    /\ list_type = "none"
    /\ list_counters = [l \in {} |-> 0]
    /\ current_list_level = 0
    /\ first_heading_found = FALSE
    /\ markdown_content = <<>>
    /\ heading_offset = HeadingOffset(doc)
    /\ font_size_headings = FontSizeHeadings(doc)
    /\ inputs = <<>>
    /\ conv = 0
    /\ image_counter = 0
    /\ image_map = [r \in {} |-> <<>>]
    /\ assets = <<>>
    /\ fs = {}
    /\ emitted = <<>>
    /\ log = <<>>
    /\ extraction = [fallback |-> FALSE, given_up |-> FALSE]
    /\ results = <<>>
    /\ argv = <<>>
    /\ version_files = <<>>
    /\ files_changed = <<>>
    /\ exit_code = <<>>
    /\ original_files = <<>>
    /\ CalledWith({DefaultArguments})

\* a converter as constructed, before its first call of convert_file on one of
\* the given sequences of inputs
InitConverter(input_seqs, args) ==
    /\ inputs \in input_seqs
    /\ conv = 0
    /\ pc = "idle"
    /\ doc = <<>>
    /\ pos = 1
    /\ output_lines = <<>>
    /\ in_list = FALSE
    /\ list_type = "none"
    /\ list_counters = [l \in {} |-> 0]
    /\ current_list_level = 0
    /\ first_heading_found = FALSE
    /\ markdown_content = <<>>
    /\ heading_offset = 0
    /\ font_size_headings = [x \in {} |-> 0]
    /\ image_counter = 0
    /\ image_map = [r \in {} |-> <<>>]
    /\ assets = <<>>
    /\ fs = {}
    /\ emitted = <<>>
    /\ log = <<>>
    /\ extraction = [fallback |-> FALSE, given_up |-> FALSE]
    /\ results = <<>>
    /\ argv = <<>>
    /\ version_files = <<>>
    /\ files_changed = <<>>
    /\ exit_code = <<>>
    /\ original_files = <<>>
    /\ CalledWith(args)

\* the same, called with an input in the current directory and no output_path
InitCalls(input_seqs) == InitConverter(input_seqs, {DefaultArguments})

Init == doc \in DocsOver(ListBlocks, MaxBlocks) /\ InitState

InitHeadings == doc \in DocsOver(HeadingBlocks, MaxHeadingBlocks) /\ InitState

Spec == Init /\ [][Next]_vars

SpecHeadings == InitHeadings /\ [][Next]_vars

-----------------------------------------------------------------------------
(* Heading normalizer and clean_markdown_content: claims C1, C2, C4 *)

Normalized == pc \in {"clean", "done"}

\* the positions of the lines the normalizer took for headings
HeadPos == {i \in 1..Len(emitted) : IsHeadingLine(emitted[i])}
\* the heading before position j, 0 if j is the first heading
PrevHead(j) == IF \E i \in HeadPos : i < j THEN SetMax({i \in HeadPos : i < j}) ELSE 0
InLevel(i) == LeadCount(emitted[i], {"#"})
OutLevel(i) == LeadCount(output_lines[i], {"#"})
Abs(n) == IF n < 0 THEN 0 - n ELSE n

\* C1 as stated: after the normalizer no two consecutive headings differ in level
\* by more than 1, in either direction.
C1_DifferByAtMostOne ==
    Normalized =>
        \A j \in HeadPos :
            PrevHead(j) # 0 => Abs(OutLevel(j) - OutLevel(PrevHead(j))) <= 1

\* C1 amended: after the normalizer no heading is more than one level deeper than
\* the heading before it; it may be any number of levels shallower.
C1_NoJumpDeeper ==
    Normalized =>
        \A j \in HeadPos :
            PrevHead(j) # 0 => OutLevel(j) <= OutLevel(PrevHead(j)) + 1

\* a heading emitted two or more levels below the normalized heading before it
C1_Witness ==
    /\ pc = "done"
    /\ \E j \in HeadPos :
           PrevHead(j) # 0 /\ InLevel(j) > OutLevel(PrevHead(j)) + 1

\* C2 as stated: every heading's level is at most last_heading_level + 1, with
\* last_heading_level 0 before the first heading, so the first heading is level 1.
C2_FirstHeadingClamped ==
    Normalized =>
        \A j \in HeadPos :
            OutLevel(j) <= (IF PrevHead(j) = 0 THEN 0 ELSE OutLevel(PrevHead(j))) + 1

\* C2 amended: every heading but the first gets the smaller of its own level and
\* last_heading_level + 1; the first heading is not clamped and keeps its level.
C2_ClampedAfterFirst ==
    Normalized =>
        \A j \in HeadPos :
            OutLevel(j) = IF PrevHead(j) = 0 THEN InLevel(j)
                          ELSE Min2(InLevel(j), OutLevel(PrevHead(j)) + 1)

\* a first heading deeper than level 1, followed by a heading that is clamped
C2_Witness ==
    /\ pc = "done"
    /\ \E i, j \in HeadPos :
           /\ PrevHead(i) = 0 /\ InLevel(i) > 1
           /\ PrevHead(j) = i /\ OutLevel(j) < InLevel(j)

\* three consecutive empty lines in s: three newlines at the start of a line
ThreeBlankLines(s) ==
    \E i \in 1..(Len(s) - 2) :
        /\ s[i] = "\n" /\ s[i + 1] = "\n" /\ s[i + 2] = "\n"
        /\ (i = 1 \/ s[i - 1] = "\n")

\* C4: the string clean_markdown_content returns has no 3 consecutive blank
\* lines and ends with exactly one newline.
C4_CleanOutput ==
    pc = "done" =>
        /\ ~ThreeBlankLines(markdown_content)
        /\ Len(markdown_content) >= 1
        /\ markdown_content[Len(markdown_content)] = "\n"
        /\ Len(markdown_content) >= 2 => markdown_content[Len(markdown_content) - 1] # "\n"

\* a cleaned buffer that held three consecutive blank lines and ended in a blank line
C4_Witness ==
    /\ pc = "done"
    /\ ThreeBlankLines(Join(output_lines, <<"\n">>))
    /\ output_lines[Len(output_lines)] = <<>>

-----------------------------------------------------------------------------
(* Heading classifier: claim C3 *)

HeadingRules == {"title", "promoted", "heading", "font", "formatted", "section"}

\* C3: every heading emitted by a classifier rule has a level in 1..6.
C3_LevelsInRange ==
    \A i \in 1..Len(log) : log[i].rule \in HeadingRules => log[i].level \in 1..6

-----------------------------------------------------------------------------
(* List tracker: claims C5 to C10 *)

\* the list line element i emitted (the normalizer leaves list lines alone)
ItemLine(i) == output_lines[log[i].n_after]
\* the ordinal and the level as written in that line
LineOrdinal(i) ==
    LET body == Drop(ItemLine(i), LeadCount(ItemLine(i), {" "}))
    IN  DigitsVal(Take(body, LeadCount(body, DIGITS)))
LineLevel(i) == LeadCount(ItemLine(i), {" "}) \div 2
IsOrdered(i) == log[i].rule = "ordered"
IsItem(i) == log[i].rule \in {"ordered", "unordered"}

\* C5: consecutive ordered items of one level are numbered n, n + 1, and the first
\* ordered item after an unordered one is numbered 1.
C5_RunsCountByOne ==
    \A i \in 1..(Len(log) - 1) :
        /\ IsOrdered(i) /\ IsOrdered(i + 1) /\ LineLevel(i) = LineLevel(i + 1)
               => LineOrdinal(i + 1) = LineOrdinal(i) + 1
        /\ log[i].rule = "unordered" /\ IsOrdered(i + 1) => LineOrdinal(i + 1) = 1

\* an unordered item, then two ordered items of one level
C5_Witness ==
    \E i \in 1..(Len(log) - 2) :
        /\ log[i].rule = "unordered" /\ IsOrdered(i + 1) /\ IsOrdered(i + 2)
        /\ LineLevel(i + 1) = LineLevel(i + 2)

\* C6 as stated: an ordered item that resumes a list after it was ended continues
\* from the counter of its level.
C6_ResumeContinues ==
    \A i \in 1..Len(log) :
        IsOrdered(i) /\ ~log[i].was_in_list /\ log[i].level \in DOMAIN log[i].counters_before
            => LineOrdinal(i) = log[i].counters_before[log[i].level]

\* C6 amended: ending a list leaves the counters as they are, but the first ordered
\* item after the list was ended is numbered 1 again.
C6_ResumeRestarts ==
    \A i \in 1..Len(log) :
        /\ log[i].ended => log[i].counters_after = log[i].counters_before
        /\ IsOrdered(i) /\ ~log[i].was_in_list => LineOrdinal(i) = 1

\* a list ended by a paragraph with a counter above 1 kept, and resumed at that level
C6_Witness ==
    \E i, j \in 1..Len(log) :
        /\ i < j
        /\ log[i].ended /\ log[i].rule = "plain"
        /\ IsOrdered(j) /\ ~log[j].was_in_list
        /\ log[j].level \in DOMAIN log[j].counters_before
        /\ log[j].counters_before[log[j].level] > 1

\* j and i are ordered items of one level in a run of ordered items, with only
\* items of other levels between them
LevelReentered(j, i) ==
    /\ j + 1 < i
    /\ \A k \in j..i : IsOrdered(k)
    /\ LineLevel(j) = LineLevel(i)
    /\ \A k \in (j + 1)..(i - 1) : LineLevel(k) # LineLevel(i)

\* C7: within a run of ordered items, an item that comes back to a level used
\* earlier in the run gets the ordinal after the last one of that level.
C7_ReentryResumes ==
    \A j, i \in 1..Len(log) :
        LevelReentered(j, i) => LineOrdinal(i) = LineOrdinal(j) + 1

\* a run of ordered items that leaves a level and comes back to it
C7_Witness == \E j, i \in 1..Len(log) : LevelReentered(j, i)

\* element t starts a new list or switches the list type
IsTransition(t) ==
    IsItem(t) /\ (~log[t].was_in_list
                  \/ log[t].type_before # (IF IsOrdered(t) THEN "ordered" ELSE "unordered"))

\* C8: after a transition, the first ordered item at any level is numbered 1.
C8_TransitionResetsAll ==
    \A t, i \in 1..Len(log) :
        /\ t <= i /\ IsTransition(t) /\ IsOrdered(i)
        /\ \A k \in (t + 1)..i : ~IsTransition(k)
        /\ \A k \in t..(i - 1) : ~(IsOrdered(k) /\ LineLevel(k) = LineLevel(i))
        => LineOrdinal(i) = 1

\* C9: a paragraph with text that is not a list item and is emitted while the
\* tracker is in a list ends the list: a blank line comes first, and afterwards
\* in_list is false and list_type is None.
C9_NonListEndsList ==
    \A i \in 1..Len(log) :
        /\ log[i].has_text /\ ~log[i].is_list /\ log[i].was_in_list
        /\ log[i].n_after > log[i].n_before
        => /\ output_lines[log[i].n_before + 1] = <<>>
           /\ ~log[i].in_list_after
           /\ log[i].list_type_after = "none"

\* C10: the level of every list item, current_list_level and the indentation
\* (two spaces a level) stay within 0..5.
C10_LevelInRange ==
    /\ current_list_level \in 0..5
    /\ \A i \in 1..Len(log) :
           IsItem(i) => log[i].level \in 0..5 /\ LeadCount(ItemLine(i), {" "}) <= 10

-----------------------------------------------------------------------------
(* Font-size hierarchy: claim C11 *)

MaxSizes == 8

\* a paragraph of one run set in size s points
FontPara(s) == Para(<<>>, <<Run(<<"p">>, FALSE, s)>>, <<>>, <<>>, 0)

RECURSIVE SizesDescending(_)
SizesDescending(S) ==
    IF S = {} THEN <<>>
    ELSE <<FontPara(SetMax(S))>> \o SizesDescending(S \ {SetMax(S)})

RECURSIVE SizesAscending(_)
SizesAscending(S) ==
    IF S = {} THEN <<>>
    ELSE <<FontPara(SetMin(S))>> \o SizesAscending(S \ {SetMin(S)})

\* one paragraph for each size of a set, largest or smallest first, or after a
\* further paragraph in one of the sizes (which makes that size the most frequent)
FontBodies ==
    LET sets == SUBSET (1..MaxSizes)
    IN  {SizesDescending(S) : S \in sets} \cup {SizesAscending(S) : S \in sets}
        \cup UNION {{<<FontPara(b)>> \o SizesDescending(S) : b \in S} : S \in sets}

\* what may stand before the sized paragraphs
FontPrefixes ==
    { <<>>, <<Styled(st_Title, <<"T">>)>>, <<Styled(st_Heading("1"), <<"H">>)>>,
      <<Tbl(<< <<<<"x">>>> >>)>> }

InitFonts == doc \in {pre \o body : pre \in FontPrefixes, body \in FontBodies} /\ InitState

SpecFonts == InitFonts /\ [][Next]_vars

\* the sizes of a collected list, and those above a baseline
SizeSet(cand) == {cand[i] : i \in 1..Len(cand)}
Above(cand, base) == {x \in SizeSet(cand) : x > base}
\* k for the k-th largest of a set of sizes
RankIn(above, x) == Cardinality({y \in above : y >= x})
MapBuilt == ~_check_for_heading_styles(doc) /\ Candidates(doc) # <<>>
FontPromoted == \E i \in 1..Len(log) : log[i].rule = "font"

\* C11 as stated: the k-th largest size above the baseline gets level k capped
\* at 6 (min(k, 6)), every size at or below the baseline gets 0.
C11_LevelCappedAtSix ==
    MapBuilt =>
        \A cand \in {Candidates(doc)} : \A m \in {FontSizeHeadings(doc)} :
        \A above \in {Above(cand, MostCommon(cand))} :
            /\ DOMAIN m = SizeSet(cand)
            /\ \A x \in SizeSet(cand) :
                   m[x] = IF x \in above /\ Cardinality(SizeSet(cand)) > 1
                          THEN Min2(RankIn(above, x), 6) ELSE 0

\* C11, amended: the k-th largest size above the baseline gets level k for
\* k <= 6 and level 0 (normal text) from the seventh on; every size at or below
\* the baseline gets 0; three sizes with two above the baseline give exactly
\* levels 1 and 2, the largest 1; a single size gives no level and no paragraph
\* is promoted by font size.
C11_FirstSixSizesGetLevels ==
    MapBuilt =>
        \A cand \in {Candidates(doc)} : \A m \in {FontSizeHeadings(doc)} :
        \A above \in {Above(cand, MostCommon(cand))} :
            /\ DOMAIN m = SizeSet(cand)
            /\ \A x \in SizeSet(cand) :
                   m[x] = IF x \in above /\ RankIn(above, x) <= 6
                          THEN RankIn(above, x) ELSE 0
            /\ Cardinality(SizeSet(cand)) = 3 /\ Cardinality(above) = 2
                   => /\ {m[x] : x \in above} = {1, 2}
                      /\ m[SetMax(SizeSet(cand))] = 1
                      /\ m[MostCommon(cand)] = 0
            /\ Cardinality(SizeSet(cand)) = 1
                   => (\A x \in SizeSet(cand) : m[x] = 0) /\ ~FontPromoted

C11_Witness ==
    /\ pc = "done" /\ MapBuilt
    /\ \A cand \in {Candidates(doc)} : \A m \in {FontSizeHeadings(doc)} :
       \A above \in {Above(cand, MostCommon(cand))} :
           /\ Cardinality(above) = 7
           /\ m[SetMin(above)] = 0
           /\ m[SetMax(above)] = 1
    /\ FontPromoted

-----------------------------------------------------------------------------
(* Heading styles: claim C12 *)

MaxStyleBlocks == 3

t_Overview == <<"O", "v", "e", "r", "v", "i", "e", "w">>

\* the paragraphs and tables the styled documents are made of
StyleBlocks ==
    { Styled(st_Title, <<"T">>),
      Styled(st_Heading("1"), <<"A">>),
      Styled(st_Heading("2"), t_Overview \o <<".">>),
      Styled(<<"H", "e", "a", "d", "i", "n", "g">>, <<"N">>),
      Styled(st_Heading("6"), <<"S">>),
      Styled(st_Heading("1") \o <<"2">>, <<"X">>),
      Styled(st_Heading("3"), <<" ">>),
      Plain(<<"d">>),
      Plain(<<"-", " ", "c">>),
      Tbl(<< <<<<"x">>>> >>) }

InitStyles == doc \in DocsOver(StyleBlocks, MaxStyleBlocks) /\ InitState

SpecStyles == InitStyles /\ [][Next]_vars

\* the lines convert_document produced, before the normalizer rewrote them
Buffer == IF pc = "walk" THEN output_lines ELSE emitted

\* the numeral a style name ends in, 1 if it ends in none
StyleNumeral(style) ==
    IF TrailCount(style, DIGITS) = 0 THEN 1
    ELSE DigitsVal(Drop(style, Len(style) - TrailCount(style, DIGITS)))

\* element i is a heading-styled paragraph with text, neither Title-styled nor
\* the promoted first Heading 1
StyledHeading(i) ==
    /\ doc[i].tag = "p"
    /\ Contains(StyleName(doc[i]), s_heading)
    /\ ~Contains(StyleName(doc[i]), s_title)
    /\ Strip(ParaText(doc[i])) # <<>>
    /\ log[i].rule # "promoted"

TitleExists == \E k \in 1..Len(doc) : IsTitleParagraph(doc[k])

\* C12: a heading-styled paragraph is emitted as '#' * min(N + heading_offset, 6),
\* a space and its text, N the numeral of the style name or 1, heading_offset 1
\* iff a Title paragraph exists; 'Heading 2' with text 'Overview.', no Title and
\* no earlier Heading 1, is '## Overview' in the final output.
C12_StyledHeadingLevel ==
    \A i \in 1..Len(log) :
        StyledHeading(i) =>
            \A level \in {Min2(StyleNumeral(doc[i].style) + (IF TitleExists THEN 1 ELSE 0), 6)} :
                /\ log[i].rule = "heading"
                /\ log[i].level = level
                /\ Buffer[log[i].n_after - 1]
                       = Repeat("#", level) \o <<" ">> \o Strip(ParaText(doc[i]))
                /\ Buffer[log[i].n_after] = <<>>
                /\ /\ doc[i] = Styled(st_Heading("2"), t_Overview \o <<".">>)
                   /\ ~TitleExists
                   /\ Normalized
                   => output_lines[log[i].n_after - 1] = <<"#", "#", " ">> \o t_Overview
                /\ /\ doc[i] = Styled(st_Heading("2"), t_Overview \o <<".">>)
                   /\ ~TitleExists
                   /\ pc = "done"
                   => Contains(<<"\n">> \o markdown_content,
                               <<"\n", "#", "#", " ">> \o t_Overview \o <<"\n">>)

C12_Witness ==
    /\ pc = "done" /\ ~TitleExists
    /\ \E i \in 2..Len(log) :
           /\ StyledHeading(i)
           /\ doc[i] = Styled(st_Heading("2"), t_Overview \o <<".">>)
           /\ log[i - 1].rule = "heading" /\ log[i - 1].level = 6
           /\ output_lines[log[i].n_after - 1] = <<"#", "#", " ">> \o t_Overview

-----------------------------------------------------------------------------
(* Tables: claim C13 *)

MaxTableBlocks == 3

\* the paragraphs and tables the table documents are made of
TableBlocks ==
    { Tbl(<< <<<<"x">>>> >>),
      Tbl(<< <<<<"x">>, <<"y">>>> >>),
      Tbl(<< <<<<"h">>, <<" ", "k", "\n", "l", " ">>>>, <<<<"1">>, <<>>>> >>),
      Tbl(<< <<<<"a">>, <<"b">>, <<"c">>>>, <<<<"1">>>>, <<<<"2">>, <<"3">>>> >>),
      Plain(<<"d">>),
      Plain(<<"-", " ", "c">>),
      Styled(st_Title, <<"T">>),
      Styled(st_Heading("1"), <<"H">>) }

InitTables == doc \in DocsOver(TableBlocks, MaxTableBlocks) /\ InitState

SpecTables == InitTables /\ [][Next]_vars

RECURSIVE CellsThenBar(_)
\* ' c1 | c2 | ... cn |'
CellsThenBar(cells) ==
    IF cells = <<>> THEN <<>>
    ELSE <<" ">> \o CellText(cells[1]) \o <<" ", "|">> \o CellsThenBar(Tail(cells))

RECURSIVE DashesThenBar(_)
\* ' --- |' n times
DashesThenBar(n) ==
    IF n = 0 THEN <<>> ELSE <<" ", "-", "-", "-", " ", "|">> \o DashesThenBar(n - 1)

IsSeparator(line) == \E n \in 1..Len(line) : line = <<"|">> \o DashesThenBar(n)

\* C13: a table of r >= 1 rows is emitted as a blank line, the first row as
\* '| c1 | ... | cn |', one separator '| --- | ... |' of as many columns as the
\* first row right after it, the other r - 1 rows one line each in order, and a
\* blank line; the table has exactly one separator line.
C13_TableLayout ==
    \A i \in 1..Len(log) :
        doc[i].tag = "tbl" /\ Len(doc[i].rows) >= 1 =>
            \A rows \in {doc[i].rows} : \A from \in {log[i].n_before} :
                /\ log[i].n_after = from + Len(rows) + 3
                /\ Buffer[from + 1] = <<>>
                /\ Buffer[from + 2] = <<"|">> \o CellsThenBar(rows[1])
                /\ Buffer[from + 3] = <<"|">> \o DashesThenBar(Len(rows[1]))
                /\ \A k \in 2..Len(rows) :
                       Buffer[from + 2 + k] = <<"|">> \o CellsThenBar(rows[k])
                /\ Buffer[from + Len(rows) + 3] = <<>>
                /\ Cardinality({j \in (from + 1)..log[i].n_after : IsSeparator(Buffer[j])}) = 1

C13_Witness ==
    /\ pc = "done"
    /\ \E i \in 2..Len(log) :
           /\ doc[i].tag = "tbl" /\ Len(doc[i].rows) = 3
           /\ doc[i - 1].tag = "tbl" /\ Len(doc[i - 1].rows) = 2
           /\ Buffer[log[i].n_before + 3] = <<"|">> \o DashesThenBar(Len(doc[i].rows[1]))
           /\ Buffer[log[i].n_before + 5]
                  = <<"|", " ", "2", " ", "|", " ", "3", " ", "|">>

-----------------------------------------------------------------------------
(* Image extraction: claims C14, C15, C16 *)

MaxEntries == 3
MaxRels == 2

p_a == Path(TRUE, "a", <<".", "P", "N", "G">>)
p_b == Path(TRUE, "b", <<".", "j", "p", "g">>)
p_c == Path(TRUE, "c", <<".", "e", "m", "f">>)
p_document == Path(FALSE, "document", <<".", "x", "m", "l">>)

\* the entries a file list is made of: two images, readable or not, a media
\* entry the fallback scan does not take, and an entry outside the media folder
ZipEntries ==
    { Entry(p_a, "none"), Entry(p_a, "copy"), Entry(p_b, "none"), Entry(p_b, "open"),
      Entry(p_c, "none"), Entry(p_document, "none") }

\* the file lists: no path twice
FileLists ==
    {fl \in DocsOver(ZipEntries, MaxEntries) :
        \A i, j \in 1..Len(fl) : i # j => fl[i].path # fl[j].path}

\* the relationships a manifest is made of
Relationships ==
    { Rel("rId1", TRUE, <<p_a>>), Rel("rId2", TRUE, <<p_b>>), Rel("rId3", TRUE, <<p_c>>),
      Rel("rId4", FALSE, <<>>), Rel("rId5", TRUE, <<Path(FALSE, "a", <<".", "p", "n", "g">>)>>),
      Rel("rId6", TRUE, <<p_a>>) }

\* the manifests: no Id twice
Manifests ==
    {rels \in DocsOver(Relationships, MaxRels) :
        \A i, j \in 1..Len(rels) : i # j => rels[i].id # rels[j].id}

Archives ==
    {Archive("parsed", rels, fl) : rels \in Manifests, fl \in FileLists}
    \cup {Archive(m, <<>>, fl) : m \in {"missing", "unparseable"}, fl \in FileLists}

\* a paragraph with text and one drawing
ImagePara == Para(<<>>, <<Run(<<"s", "e", "e">>, FALSE, 0)>>, <<>>, <<>>, 1)

InitExtract == InitCalls({<<InputFile(TRUE, FALSE, a, <<ImagePara>>)>> : a \in Archives})

\* convert_file on a document of paragraphs
NextExtract ==
    \/ CallConvertFile
    \/ CheckInputExists
    \/ SetupOutputStructure
    \/ LoadDocument
    \/ ExtractImages
    \/ AnalyzeStyles
    \/ ConvertParagraph
    \/ FixHeadingLevels
    \/ CleanMarkdownContent
    \/ WriteOutput

SpecExtract == InitExtract /\ [][NextExtract]_vars

Extracted == pc \in {"analyze", "walk", "clean", "done", "returned"}
TheArchive == inputs[conv].archive
NoFault == \A k \in 1..Len(TheArchive.filelist) : TheArchive.filelist[k].fault = "none"

\* the digits between 'image_' and the extension of the file's source
NameDigits(f) == SubSeq(f.name, 7, Len(f.name) - Len(f.source.ext))
NameNumber(f) == DigitsVal(NameDigits(f))
WellFormedName(f) ==
    /\ Len(f.name) >= 6 + Len(f.source.ext)
    /\ SubSeq(f.name, 1, 6) = <<"i", "m", "a", "g", "e", "_">>
    /\ \A i \in 1..Len(NameDigits(f)) : NameDigits(f)[i] \in DIGITS
    /\ Drop(f.name, Len(f.name) - Len(f.source.ext)) = Lower(f.source.ext)
\* the images extracted: the files written whole
ExtractedFiles == SelectSeq(assets, LAMBDA f : f.complete)

Scannable(en) == en.path.media /\ Lower(en.path.ext) \in ALLOWED_EXT
\* the entry was extracted: a file written whole from it
IsExtracted(en) ==
    \E i \in 1..Len(assets) : assets[i].complete /\ assets[i].source = en.path

\* C15: when the manifest is missing, is unparseable, or parses but yields no
\* relationship-id mapping, the fallback scan runs and every media entry with an
\* allow-listed extension is extracted (stated here for containers all of whose
\* entries can be read).
C15_FallbackWhenNoMapping ==
    /\ Extracted /\ NoFault
    /\ \/ TheArchive.manifest \in {"missing", "unparseable"}
       \/ DOMAIN image_map = {}
    => \A k \in 1..Len(TheArchive.filelist) :
           Scannable(TheArchive.filelist[k])
           => extraction.fallback /\ IsExtracted(TheArchive.filelist[k])

\* an entry the extraction can extract: one the fallback scan takes, or one an
\* image relationship of a parsed manifest points at
Extractable(en) ==
    \/ Scannable(en)
    \/ /\ TheArchive.manifest = "parsed"
       /\ \E r \in 1..Len(TheArchive.rels) :
              /\ IsExtractable(TheArchive.rels[r], TheArchive.filelist)
              /\ TheArchive.rels[r].target[1] = en.path

\* C16: when extracting one image fails, every other image that can be extracted
\* is still extracted, and the conversion completes and returns Markdown.
C16_OtherImagesStillExtracted ==
    /\ Extracted /\ Len(ExtractedFiles) < image_counter =>
           \A k \in 1..Len(TheArchive.filelist) :
               TheArchive.filelist[k].fault = "none" /\ Extractable(TheArchive.filelist[k])
               => IsExtracted(TheArchive.filelist[k])
    /\ \A i \in 1..Len(results) : results[i].kind = "returned"

-----------------------------------------------------------------------------
(* Calls of convert_file: claims C17, C18 *)

MaxCalls == 3

NoImages == Archive("parsed", <<>>, <<Entry(p_document, "none")>>)
OneImage == Archive("parsed", <<Rel("rId1", TRUE, <<p_a>>)>>, <<Entry(p_a, "none")>>)

\* documents that leave the converter in different states: an open ordered
\* list, a Title offset, a font-size map, a promoted heading, a table
d_list == <<Plain(<<"1", ".", " ", "a">>), Plain(<<"2", ".", " ", "b">>)>>
d_title == <<Styled(st_Title, <<"T">>), Styled(st_Heading("2"), <<"X">>)>>
d_fonts == <<FontPara(20), FontPara(10), FontPara(10)>>
d_heading == <<Styled(st_Heading("1"), <<"H">>), Plain(<<"1", ".", " ", "a">>)>>
d_table == <<Plain(<<"d">>), Tbl(<< <<<<"x">>>> >>)>>

\* the input files the calls are made on
InputFiles ==
    { InputFile(TRUE, FALSE, NoImages, d_list),
      InputFile(TRUE, FALSE, NoImages, d_title),
      InputFile(TRUE, FALSE, NoImages, d_fonts),
      InputFile(TRUE, FALSE, OneImage, d_heading),
      InputFile(TRUE, TRUE, NoImages, d_table),
      InputFile(FALSE, FALSE, NoImages, <<>>),
      InputFile(FALSE, TRUE, NoImages, <<>>) }

InitFiles == InitCalls(DocsOver(InputFiles, MaxCalls))

SpecFiles == InitFiles /\ [][NextFile]_vars

\* C17: convert_file on an input path that does not exist raises to the caller
\* before any output-directory side effect: the call has created no output
\* folder, assets directory, temporary directory or Markdown file when the
\* error is raised, and it gets no further than the check.
C17_MissingInputNoSideEffect ==
    /\ conv > 0 /\ ~inputs[conv].exists =>
           /\ pc \in {"start", "raised"}
           /\ fs = {}
    /\ \A i \in 1..Len(results) :
           ~inputs[results[i].call].exists
           => results[i].kind = "FileNotFoundError" /\ results[i].fs = {}

C17_Witness ==
    /\ pc = "raised" /\ conv = 2
    /\ ~inputs[2].exists /\ inputs[2].is_doc
    /\ results[1].kind = "returned"
    /\ "markdown_file" \in results[1].fs
    /\ results[2].kind = "FileNotFoundError"

\* C18: no per-document state survives a conversion: a document converted by a
\* converter that has converted other documents before gives the same Markdown
\* as it gives a fresh converter (the first call), and the walk starts from an
\* empty buffer, a new list state and the offset and font-size map of the
\* document itself.
C18_FreshStatePerConversion ==
    /\ \A i, j \in 1..Len(results) :
           /\ results[i].call = 1
           /\ inputs[results[j].call] = inputs[1]
           /\ results[i].kind = "returned" /\ results[j].kind = "returned"
           => results[j].markdown = results[i].markdown
    /\ pc = "walk" /\ log = <<>> /\ conv > 0 =>
           /\ output_lines = <<>>
           /\ ListState = [in_list |-> FALSE, list_type |-> "none",
                           list_counters |-> [l \in {} |-> 0], current_list_level |-> 0]
           /\ heading_offset = HeadingOffset(doc)
           /\ font_size_headings = FontSizeHeadings(doc)
           /\ ~first_heading_found /\ pos = 1

C18_Witness ==
    /\ pc = "returned" /\ conv = 3
    /\ inputs[1] = inputs[3] /\ inputs[1].document = d_heading
    /\ inputs[2].document = d_list
    /\ Len(results) = 3
    /\ results[3].markdown = results[1].markdown
    /\ results[2].kind = "returned"

-----------------------------------------------------------------------------
(* scripts/bump_version.py *)

\* The text of a source file is a sequence of lines; a line is an assignment
\* name = "value" or some other text.
Assignment(name, value) == [name |-> name, value |-> value]
OtherLine == [name |-> "", value |-> <<>>]

INIT_PY == "docx_converter/__init__.py"
SETUP_PY == "setup.py"

\* a version of three numbers starts text: what is left after it, or <<"?">>
\* followed by the text when it does not
AfterNumber(text) == Drop(text, LeadCount(text, DIGITS))
AfterDot(text) == IF text # <<>> /\ text[1] = "." THEN Tail(text) ELSE <<"?">> \o text
StartsWithNumber(text) == LeadCount(text, DIGITS) >= 1

\* VERSION_RE.match: ^\d+\.\d+\.\d+(?:[\-+].*)?$
VERSION_RE(text) ==
    /\ StartsWithNumber(text)
    /\ StartsWithNumber(AfterDot(AfterNumber(text)))
    /\ StartsWithNumber(AfterDot(AfterNumber(AfterDot(AfterNumber(text)))))
    /\ \A rest \in {AfterNumber(AfterDot(AfterNumber(AfterDot(AfterNumber(text)))))} :
          \/ rest = <<>>
          \/ /\ rest[1] \in {"-", "+"}
             /\ \A i \in 2..Len(rest) : rest[i] # "\n"

validate_version(v) == VERSION_RE(Strip(v))

\* the patterns name\s*=\s*['"][^'"]+['"] of main, by the name they look for:
\* the value between the quotes is not empty
PatternMatches(pattern, line) == line.name = pattern /\ line.value # <<>>

\* pattern.subn(repl, text): the new text and the number of replacements
subn(pattern, repl, text) ==
    [new_text |-> [i \in 1..Len(text) |->
                      IF PatternMatches(pattern, text[i])
                      THEN Assignment(pattern, repl) ELSE text[i]],
     n |-> Cardinality({i \in 1..Len(text) : PatternMatches(pattern, text[i])})]

\* replace_in_file: the files afterwards and the value returned
replace_in_file(files, path, pattern, repl) ==
    IF subn(pattern, repl, files[path][1]).n # 0
    THEN [files |-> [files EXCEPT ![path] = <<subn(pattern, repl, files[path][1]).new_text>>],
          returned |-> TRUE]
    ELSE [files |-> files, returned |-> FALSE]

\* new_version of main
new_version == Strip(argv[1])

\* main, lines 37-45: the argument is missing or is not a version
CheckArguments ==
    /\ pc = "main"
    /\ IF Len(argv) < 1 \/ ~validate_version(new_version)
       THEN exit_code' = <<1>> /\ pc' = "exited"
       ELSE exit_code' = exit_code /\ pc' = "init_py"
    /\ files_changed' = <<>>
    /\ UNCHANGED <<pathvars, argv, version_files, original_files, filevars, doc, pos,
                   output_lines, in_list, list_type, list_counters,
                   current_list_level, first_heading_found, markdown_content,
                   heading_offset, font_size_headings, emitted, log>>

\* the update of one of the two files
UpdateFile(path, pattern, next_pc) ==
    /\ IF version_files[path] # <<>>
       THEN /\ version_files' = replace_in_file(version_files, path, pattern, new_version).files
            /\ files_changed' =
                 IF replace_in_file(version_files, path, pattern, new_version).returned
                 THEN Append(files_changed, path) ELSE files_changed
       ELSE UNCHANGED <<version_files, files_changed>>
    /\ pc' = next_pc
    /\ UNCHANGED <<pathvars, argv, exit_code, original_files, filevars, doc, pos,
                   output_lines, in_list, list_type, list_counters,
                   current_list_level, first_heading_found, markdown_content,
                   heading_offset, font_size_headings, emitted, log>>

\* main, lines 52-57
UpdateInitPy == pc = "init_py" /\ UpdateFile(INIT_PY, "__version__", "setup_py")

\* main, lines 60-65
UpdateSetupPy == pc = "setup_py" /\ UpdateFile(SETUP_PY, "version", "report")

\* main, lines 67-75
ReportChanges ==
    /\ pc = "report"
    /\ exit_code' = IF files_changed = <<>> THEN <<2>> ELSE <<0>>
    /\ pc' = "exited"
    /\ UNCHANGED <<pathvars, argv, version_files, files_changed, original_files, filevars,
                   doc, pos, output_lines, in_list, list_type, list_counters,
                   current_list_level, first_heading_found, markdown_content,
                   heading_offset, font_size_headings, emitted, log>>

NextBump == CheckArguments \/ UpdateInitPy \/ UpdateSetupPy \/ ReportChanges

\* a run of the script on the command line args over the two files
InitRun(args, files) ==
    /\ argv \in args
    /\ version_files \in files
    /\ original_files = version_files
    /\ files_changed = <<>>
    /\ exit_code = <<>>
    /\ pc = "main"
    /\ inputs = <<>>
    /\ conv = 0
    /\ doc = <<>>
    /\ pos = 1
    /\ output_lines = <<>>
    /\ in_list = FALSE
    /\ list_type = "none"
    /\ list_counters = [l \in {} |-> 0]
    /\ current_list_level = 0
    /\ first_heading_found = FALSE
    /\ markdown_content = <<>>
    /\ heading_offset = 0
    /\ font_size_headings = [x \in {} |-> 0]
    /\ image_counter = 0
    /\ image_map = [r \in {} |-> <<>>]
    /\ assets = <<>>
    /\ fs = {}
    /\ emitted = <<>>
    /\ log = <<>>
    /\ extraction = [fallback |-> FALSE, given_up |-> FALSE]
    /\ results = <<>>
    /\ CalledWith({DefaultArguments})

-----------------------------------------------------------------------------
(* bump_version exit codes: claim C19 *)

v_1_2_3 == <<"1", ".", "2", ".", "3">>
v_1_2_4 == <<"1", ".", "2", ".", "4">>
v_padded == <<" ", "1", ".", "2", ".", "3", " ">>
v_rc == <<"1", ".", "2", ".", "4", "-", "r", "c", "1">>
v_two_numbers == <<"1", ".", "2">>
v_prefixed == <<"v", "1", ".", "2", ".", "3">>
v_suffixed == <<"1", ".", "2", ".", "3", "r", "c">>

Argvs ==
    {<<>>, <<v_1_2_3>>, <<v_1_2_4>>, <<v_padded>>, <<v_rc>>, <<v_two_numbers>>,
     <<v_prefixed>>, <<v_suffixed>>, <<v_1_2_3, v_1_2_4>>}

\* a file: absent (<<>>) or its text
FileStates ==
    {<<>>,
     <<<<OtherLine>>>>,
     <<<<OtherLine, Assignment("__version__", v_1_2_3)>>>>,
     <<<<Assignment("__version__", v_1_2_4), OtherLine>>>>,
     <<<<Assignment("version", v_1_2_3), OtherLine>>>>,
     <<<<OtherLine, Assignment("version", v_1_2_4)>>>>,
     <<<<Assignment("version", v_1_2_3), Assignment("version", v_1_2_4)>>>>}

InitBump == InitRun(Argvs, [{INIT_PY, SETUP_PY} -> FileStates])

SpecBump == InitBump /\ [][NextBump]_vars

Exited == pc = "exited"

ValidArgument == Len(argv) >= 1 /\ validate_version(argv[1])

\* the versions the file at path states, as the script reads them
StatedVersions(files, path, pattern) ==
    IF files[path] = <<>> THEN {}
    ELSE {files[path][1][i].value : i \in {j \in 1..Len(files[path][1]) : PatternMatches(pattern, files[path][1][j])}}

\* the files were at the requested version already: none states another one
AlreadyAtRequested ==
    /\ StatedVersions(original_files, INIT_PY, "__version__") \subseteq {new_version}
    /\ StatedVersions(original_files, SETUP_PY, "version") \subseteq {new_version}

\* C19: main exits with 1 on a missing argument or an invalid version
\* string, with 2 when no change was required because the files were at the
\* requested version already, and with 0 when changes were made.
C19_ExitCodes ==
    Exited =>
        IF ~ValidArgument THEN exit_code = <<1>>
        ELSE IF AlreadyAtRequested THEN exit_code = <<2>> /\ version_files = original_files
        ELSE exit_code = <<0>> /\ version_files # original_files

-----------------------------------------------------------------------------
(* Hyperlinks: claim C20 *)

MaxLinkBlocks == 3

t_See == <<"S", "e", "e", " ">>
t_docs == <<"d", "o", "c", "s">>
t_now == <<" ", "n", "o", "w">>

\* a plain paragraph of unformatted runs and hyperlink elements
Linked(texts, hyperlinks) ==
    LinkedPara(<<>>, [k \in 1..Len(texts) |-> Run(texts[k], FALSE, 0)], hyperlinks,
               <<>>, <<>>, 0)

\* the paragraphs and tables the linked documents are made of
LinkBlocks ==
    { Linked(<<>>, <<Hyperlink(<<"rId1">>, t_docs, 0)>>),
      Linked(<<t_See>>, <<Hyperlink(<<"rId1">>, t_docs, 1)>>),
      Linked(<<t_See, t_now>>, <<Hyperlink(<<"rId2">>, t_docs, 1)>>),
      Linked(<<>>, <<Hyperlink(<<"rId1">>, t_docs, 0), Hyperlink(<<"rId2">>, t_now, 0)>>),
      Linked(<<t_See>>, <<Hyperlink(<<"rId9">>, t_docs, 1)>>),
      Linked(<<t_See>>, <<Hyperlink(<<>>, t_docs, 0)>>),
      Linked(<<t_See>>, <<Hyperlink(<<"rId1">>, <<" ">>, 1), Hyperlink(<<"rId2">>, t_docs, 1)>>),
      LinkedPara(<<>>, <<Run(t_See, TRUE, 0)>>, <<Hyperlink(<<"rId1">>, t_docs, 1)>>,
                 <<>>, <<>>, 0),
      Plain(t_docs),
      Styled(st_Title, <<"T">>),
      Styled(st_Heading("1"), <<"A">>),
      Tbl(<< <<<<"x">>>> >>) }

InitLinks == doc \in DocsOver(LinkBlocks, MaxLinkBlocks) /\ InitState

SpecLinks == InitLinks /\ [][Next]_vars

\* element i went the way of a plain-text paragraph
PlainParagraph(i) == doc[i].tag = "p" /\ log[i].rule = "plain"

\* the line element i was emitted as
PlainLine(i) == Buffer[log[i].n_after - 1]

\* the line of element i is a single Markdown link, the one of a hyperlink
\* element of the paragraph
CollapsedTo(i, k) ==
    /\ HyperlinkResult(doc[i].hyperlinks[k]) # <<>>
    /\ PlainLine(i) = HyperlinkResult(doc[i].hyperlinks[k])

\* C20: a plain-text paragraph collapses to a single Markdown link only when
\* one hyperlink element spans all of the paragraph's text; when the paragraph
\* also has text outside the hyperlink, that text is kept in the emitted line.
C20_CollapseOnlyWhenSpanning ==
    \A i \in 1..Len(log) :
        PlainParagraph(i) =>
            /\ \A k \in 1..Len(doc[i].hyperlinks) :
                   CollapsedTo(i, k)
                       => Strip(doc[i].hyperlinks[k].text) = Strip(ParaText(doc[i]))
            /\ \A r \in 1..Len(doc[i].runs) :
                   Contains(PlainLine(i), doc[i].runs[r].text)

-----------------------------------------------------------------------------
(* List item text: claim C21 *)

MaxItemBlocks == 3

\* a run with its three formatting flags
Fmt(text, bold, italic, underline) ==
    [text |-> text, bold |-> bold, italic |-> italic, underline |-> underline, size |-> 0]

\* numPr with level val
NumPr(val) == << << val >> >>

\* the paragraphs and tables the documents of list items are made of
ItemBlocks ==
    { Para(<<>>, <<Fmt(<<"b">>, TRUE, FALSE, FALSE)>>, NumPr(<<"0">>), <<>>, 0),
      Para(<<>>, <<Fmt(<<"-", " ">>, FALSE, FALSE, FALSE), Fmt(<<"i">>, FALSE, TRUE, FALSE)>>,
           <<>>, <<>>, 0),
      Para(<<>>, <<Fmt(<<"1", ".", " ", "u">>, FALSE, FALSE, TRUE)>>, NumPr(<<"1">>), <<>>, 0),
      Para(<<>>, <<Fmt(<<"-", " ", "*", " ", "x">>, FALSE, FALSE, FALSE)>>, <<>>, <<>>, 0),
      LinkedPara(<<>>, <<Fmt(<<"x", " ">>, FALSE, FALSE, FALSE)>>,
                 <<Hyperlink(<<"rId1">>, <<"d">>, 1)>>, NumPr(<<"2">>), <<>>, 0),
      Para(<<>>, <<Fmt(<<"2", ".", " ", "n">>, FALSE, FALSE, FALSE)>>, <<>>, <<>>, 0),
      Para(<<>>, <<Fmt(<<"p">>, TRUE, FALSE, FALSE)>>, <<>>, <<>>, 0),
      Styled(st_Title, <<"T">>),
      Styled(st_Heading("1"), <<"A">>),
      Tbl(<< <<<<"x">>>> >>) }

InitItems == doc \in DocsOver(ItemBlocks, MaxItemBlocks) /\ InitState

SpecItems == InitItems /\ [][Next]_vars

\* element i was emitted as a list item
EmittedItem(i) == doc[i].tag = "p" /\ log[i].rule \in {"ordered", "unordered"}

\* the line of the list item i
ListItemLine(i) == Buffer[log[i].n_after]

\* indentation and marker of the list item i
ItemPrefix(i) ==
    Repeat(" ", 2 * log[i].level)
    \o (IF log[i].rule = "ordered" THEN IntToStr(log[i].ordinal) \o <<".">> ELSE <<"-">>)
    \o <<" ">>

\* the text of the paragraph starts with no list marker and has no blank at
\* either end
NoTextMarker(p) ==
    /\ Strip(ParaText(p)) = ParaText(p)
    /\ remove_list_markers(ParaText(p)) = ParaText(p)

HasMarkup(p) == \E r \in 1..Len(p.runs) :
    p.runs[r].text # <<>> /\ (p.runs[r].bold \/ p.runs[r].italic \/ p.runs[r].underline)

\* C21 as stated: the text of a list item carries the inline markup of a plain
\* paragraph (here for items without hyperlink elements whose text holds no
\* marker to remove)
C21_ItemCarriesInlineMarkup ==
    \A i \in 1..Len(log) :
        EmittedItem(i) /\ NoTextMarker(doc[i]) /\ doc[i].hyperlinks = <<>> =>
            ListItemLine(i) = ItemPrefix(i) \o convert_paragraph_formatting(doc[i], <<>>)

\* C21: a list item is emitted as two spaces per level, the marker ('N.' or
\* '-'), a space, and the paragraph's trimmed plain text with the leading list
\* markers removed; no run of it carries inline markup.
C21_ItemIsPlainText ==
    \A i \in 1..Len(log) :
        EmittedItem(i) =>
            /\ ListItemLine(i) = ItemPrefix(i) \o remove_list_markers(Strip(ParaText(doc[i])))
            /\ ~Contains(ListItemLine(i), <<"*", "*">>)
            /\ ~Contains(ListItemLine(i), <<"<", "u", ">">>)
            /\ ~Contains(ListItemLine(i), <<"]", "(">>)

C21_Witness ==
    /\ pc = "done"
    /\ \E i \in 1..Len(log) : \E j \in 1..Len(log) :
           /\ EmittedItem(i) /\ HasMarkup(doc[i]) /\ log[i].level = 1
           /\ log[i].rule = "ordered"
           /\ EmittedItem(j) /\ doc[j].hyperlinks # <<>>

-----------------------------------------------------------------------------
(* Adjacent underline tags: claim C22 *)

MaxTagRuns == 3

t_open == <<"<", "u", ">">>
t_close == <<"<", "/", "u", ">">>

\* the runs the tagged paragraphs are made of
TagRuns ==
    {Fmt(t, FALSE, FALSE, u) : t \in {<<"a">>, <<" ">>, <<>>, t_open, t_close}, u \in BOOLEAN}
    \cup {Fmt(<<"a">>, TRUE, FALSE, u) : u \in BOOLEAN}

\* a document of one paragraph of up to MaxTagRuns runs, and three documents
\* that hold a title, a first heading and a table
TagDocs ==
    {<<Para(<<>>, runs, <<>>, <<>>, 0)>> : runs \in UNION {[1..k -> TagRuns] : k \in 1..MaxTagRuns}}
    \cup {<<Styled(st_Title, <<"T">>), Tbl(<< <<<<"x">>>> >>)>>,
          <<Styled(st_Heading("1"), <<"A">>)>>,
          <<Tbl(<< <<<<"x">>>> >>), Plain(<<"a">>)>>}

InitTags == doc \in TagDocs /\ InitState

SpecTags == InitTags /\ [][Next]_vars

\* the text of the run in its emphasis markers
Emphasis(run) ==
    IF run.bold THEN <<"*", "*">> \o run.text \o <<"*", "*">> ELSE run.text

RECURSIVE OneSpanPerGroup(_, _)
\* the runs with text, every maximal group of consecutive underlined ones in one
\* <u>...</u>; in_span: the run before was underlined
OneSpanPerGroup(runs, in_span) ==
    IF runs = <<>> THEN (IF in_span THEN t_close ELSE <<>>)
    ELSE IF runs[1].text = <<>> THEN OneSpanPerGroup(Tail(runs), in_span)
    ELSE IF runs[1].underline
    THEN (IF in_span THEN <<>> ELSE t_open) \o Emphasis(runs[1])
         \o OneSpanPerGroup(Tail(runs), TRUE)
    ELSE (IF in_span THEN t_close ELSE <<>>) \o Emphasis(runs[1])
         \o OneSpanPerGroup(Tail(runs), FALSE)

\* the text of the paragraph holds no underline tag of its own
NoTagInText(p) == ~Contains(ParaText(p), t_open) /\ ~Contains(ParaText(p), t_close)

\* C22 as stated: the formatted text never contains a closing tag immediately
\* followed by the identical opening tag.
C22_NeverCloseThenOpen ==
    \A i \in 1..Len(log) :
        PlainParagraph(i) => ~Contains(PlainLine(i), t_close \o t_open)

\* C22: consecutive underlined runs form one <u>...</u> span, and the formatted
\* text contains no </u> immediately followed by <u>, for every paragraph whose
\* text holds no underline tag of its own.
C22_UnderlineSpansMerged ==
    \A i \in 1..Len(log) :
        PlainParagraph(i) /\ NoTagInText(doc[i]) =>
            /\ PlainLine(i) = OneSpanPerGroup(doc[i].runs, FALSE)
            /\ ~Contains(PlainLine(i), t_close \o t_open)

C22_Witness ==
    /\ pc = "done"
    /\ PlainParagraph(1) /\ NoTagInText(doc[1]) /\ Len(doc[1].runs) = 3
    /\ \A r \in 1..3 : doc[1].runs[r].underline
    /\ doc[1].runs[2].text = <<>>
    /\ output_lines[1] = t_open \o <<"a", "*", "*", "a", "*", "*">> \o t_close

-----------------------------------------------------------------------------
(* Mixed font sizes: claim C23 *)

MaxMixedBlocks == 3

\* a paragraph of one run for each of the sizes
SizedRuns(sizes) ==
    Para(<<>>, [k \in 1..Len(sizes) |-> Run(<<"m">>, FALSE, sizes[k])], <<>>, <<>>, 0)

\* the paragraphs and tables the documents of mixed sizes are made of
MixedBlocks ==
    { FontPara(10), FontPara(20),
      SizedRuns(<<20, 20, 10>>), SizedRuns(<<10, 20>>), SizedRuns(<<20, 0>>),
      Styled(st_Title, <<"T">>),
      Styled(st_Heading("1"), <<"A">>),
      Tbl(<< <<<<"x">>>> >>) }

InitMixed == doc \in DocsOver(MixedBlocks, MaxMixedBlocks) /\ InitState

SpecMixed == InitMixed /\ [][Next]_vars

\* the runs of the paragraph that have text and a size have more than one size
MixedSizes(p) ==
    p.tag = "p" /\ \E r \in 1..Len(p.runs) : \E q \in 1..Len(p.runs) :
        /\ p.runs[r].size # 0 /\ Strip(p.runs[r].text) # <<>>
        /\ p.runs[q].size # 0 /\ Strip(p.runs[q].text) # <<>>
        /\ p.runs[r].size # p.runs[q].size

\* the number of paragraphs of d that count for the font-size sample if the
\* paragraphs of mixed sizes are left out
RECURSIVE UniformSample(_)
UniformSample(d) ==
    IF d = <<>> THEN 0
    ELSE (IF /\ d[1].tag = "p" /\ ~MixedSizes(d[1])
             /\ Strip(ParaText(d[1])) # <<>>
             /\ ~Contains(StyleName(d[1]), s_heading)
             /\ ~Contains(StyleName(d[1]), s_title)
             /\ RunSizes(d[1].runs) # <<>>
          THEN 1 ELSE 0) + UniformSample(Tail(d))

\* C23: a paragraph whose runs with text have mixed font sizes is left out of
\* the font-size sample and is never emitted as a font-size heading.
C23_MixedNeverFontHeading ==
    /\ Len(Candidates(doc)) = UniformSample(doc)
    /\ \A i \in 1..Len(log) : MixedSizes(doc[i]) => log[i].rule # "font"

-----------------------------------------------------------------------------
(* Numbered text: claim C24 *)

MaxNumberedBlocks == 3

\* the paragraphs and tables the documents of numbered text are made of
NumberedBlocks ==
    { Plain(<<"1", ".", " ", "a">>),
      Plain(<<" ", "1", "2", ".", "\t", "b">>),
      Plain(<<"3", ch_fullwidth_rparen, " ", "c">>),
      Plain(<<"1", ")", " ", "x">>),
      Plain(<<"1", ch_ideographic_comma, " ", "x">>),
      Plain(<<"1", ".", "x">>),
      Plain(<<"a", ".", " ", "b">>),
      Plain(<<"1", ".", " ", "U+6982", "U+8FF0">>),
      Plain(<<"-", " ", "d">>),
      Styled(st_Title, <<"T">>),
      Styled(st_Heading("1"), <<"A">>),
      Tbl(<< <<<<"x">>>> >>) }

InitNumbered == doc \in DocsOver(NumberedBlocks, MaxNumberedBlocks) /\ InitState

SpecNumbered == InitNumbered /\ [][Next]_vars

\* the trimmed text of the paragraph begins with digits, one of the characters
\* of puncts and a whitespace character
NumberedStart(p, puncts) ==
    \E d \in 1..Len(Strip(ParaText(p))) :
        /\ \A k \in 1..d : Strip(ParaText(p))[k] \in DIGITS
        /\ d + 2 <= Len(Strip(ParaText(p)))
        /\ Strip(ParaText(p))[d + 1] \in puncts
        /\ Strip(ParaText(p))[d + 2] \in WS

\* a paragraph with no numbering reference and no style that begins as
\* NumberedStart says is taken for a list item and for an ordered one, and is
\* emitted as an ordered item unless a heading rule takes it first
OrderedItemFor(puncts) ==
    \A i \in 1..Len(log) :
        /\ doc[i].tag = "p" /\ doc[i].numPr = <<>> /\ doc[i].style = <<>>
        /\ NumberedStart(doc[i], puncts)
        => /\ is_list_paragraph(doc[i])
           /\ _determine_list_type(Strip(ParaText(doc[i])), StyleName(doc[i]))
           /\ log[i].rule \in {"ordered", "font", "formatted", "section"}

\* C24 as stated: digits followed by '.', the ideographic comma or ')' and
\* whitespace begin an ordered list item.
C24_NumberedTextAsStated == OrderedItemFor({".", ch_ideographic_comma, ")"})

\* C24: digits followed by '.' or the fullwidth right parenthesis and
\* whitespace begin an ordered list item, also without numbering reference and
\* list style.
C24_NumberedTextIsOrdered == OrderedItemFor({".", ch_fullwidth_rparen})

C24_Witness ==
    /\ pc = "done" /\ Len(doc) = 3
    /\ doc[1] = Plain(<<"1", ".", " ", "a">>) /\ log[1].rule = "ordered"
    /\ doc[2] = Plain(<<"3", ch_fullwidth_rparen, " ", "c">>) /\ log[2].rule = "ordered"
    /\ doc[3] = Plain(<<"1", ".", " ", "U+6982", "U+8FF0">>) /\ log[3].rule = "section"

-----------------------------------------------------------------------------
(* List nesting level: claim C25 *)

MaxLevelBlocks == 3

st_List == <<"L", "i", "s", "t">>

\* a list-styled paragraph with its numPr and ind
Listed(text, numPr, ind) == Para(st_List, <<Run(text, FALSE, 0)>>, numPr, ind, 0)

\* the paragraphs and tables the documents of nested items are made of
LevelBlocks ==
    { Listed(<<"a">>, NumPr(<<"2">>), <<<<"7", "2", "0">>>>),
      Listed(<<"\t", "b">>, NumPr(<<"x">>), <<>>),
      Listed(<<"c">>, NumPr(<<>>), <<<<"1", "5", "0", "0">>>>),
      Listed(<<ch_white_bullet, " ", "d">>, << <<>> >>, <<<<"7", "2", "0", "0">>>>),
      Listed(<<"e">>, <<>>, <<<<"7", "1", "9">>>>),
      Listed(<<"\t", "\t", "f">>, <<>>, <<>>),
      Listed(<<ch_black_small_square, " ", "g">>, <<>>, <<>>),
      Listed(<<"o", " ", "h">>, <<>>, <<<<>>>>),
      Listed(<<"i">>, <<>>, <<>>),
      Styled(st_Title, <<"T">>),
      Styled(st_Heading("1"), <<"A">>),
      Tbl(<< <<<<"x">>>> >>) }

InitLevels == doc \in DocsOver(LevelBlocks, MaxLevelBlocks) /\ InitState

SpecLevels == InitLevels /\ [][Next]_vars

\* the paragraph has an explicit numbering level, a left indentation
HasIlvl(p) == p.numPr # <<>> /\ p.numPr[1] # <<>>
HasLeft(p) == p.ind # <<>> /\ p.ind[1] # <<>>

\* the level the priority order of C25 gives the paragraph
LevelByPriority(p) ==
    IF HasIlvl(p)
    THEN (IF ParseInt(p.numPr[1][1]) = <<>> THEN 0 ELSE ParseInt(p.numPr[1][1])[1])
    ELSE IF HasLeft(p) THEN Min2(DigitsVal(p.ind[1]) \div 720, 5)
    ELSE IF LeadCount(ParaText(p), {"\t"}) > 0 THEN LeadCount(ParaText(p), {"\t"})
    ELSE IF ParaText(p)[1] \in {ch_black_small_square, ch_white_bullet, "o"} THEN 1
    ELSE 0

\* C25: the level of a list item is the explicit numbering level if present
\* (0 if it cannot be parsed), else floor(left indentation / 720) capped at 5,
\* else the number of leading tab characters of the text or 1 for a sub-bullet
\* glyph, else 0.
C25_LevelByPriority ==
    \A i \in 1..Len(log) : EmittedItem(i) => log[i].level = LevelByPriority(doc[i])

-----------------------------------------------------------------------------
(* Heading punctuation: claim C26 *)

MaxPunctBlocks == 3

ch_ideographic_stop == "U+3002"
ch_fullwidth_colon == "U+FF1A"

\* the paragraphs and tables the documents of punctuated headings are made of
PunctBlocks ==
    { Styled(st_Title, <<"T", ".">>),
      Styled(st_Heading("1"), <<"A", ":">>),
      Styled(st_Heading("2"), <<"B", ".", ch_ideographic_stop>>),
      Styled(st_Heading("2"), <<"C", ch_ideographic_stop, ".">>),
      Styled(st_Heading("3"), <<"D", ch_fullwidth_colon, ch_ideographic_stop, ":", ".">>),
      Styled(st_Heading("2"), <<"E", ".", " ", ":">>),
      Styled(st_Heading("2"), <<"F", ".", "g">>),
      Plain(<<"#", " ", "H", ch_ideographic_stop>>),
      Plain(<<"i", ".">>),
      Tbl(<< <<<<"x">>>> >>) }

InitPunct == doc \in DocsOver(PunctBlocks, MaxPunctBlocks) /\ InitState

SpecPunct == InitPunct /\ [][Next]_vars

\* C26: after the normalizer no heading ends with a character of the stripped
\* punctuation (ideographic full stop, fullwidth exclamation mark, question
\* mark, colon, semicolon and comma, ASCII colon and full stop).
C26_NoTrailingPunctuation ==
    Normalized =>
        \A k \in HeadPos :
            output_lines[k][Len(output_lines[k])] \notin CJK_PUNCT \cup ASCII_PUNCT

-----------------------------------------------------------------------------
(* Frame of the heading normalizer: claim C27 *)

\* the text the normalizer matched in line k of the buffer it was given
InText(k) == HeadingMatch(emitted[k])[1].text

\* C27: the normalizer keeps the number and the order of the lines, leaves
\* every line that is no heading as it is, and gives every heading a level
\* between 1 and the level it had, followed by a blank and the start of its text.
C27_NormalizerFrame ==
    Normalized =>
        /\ Len(output_lines) = Len(emitted)
        /\ \A k \in 1..Len(emitted) :
               IF k \in HeadPos
               THEN /\ OutLevel(k) \in 1..InLevel(k)
                    /\ output_lines[k][OutLevel(k) + 1] = " "
                    /\ StartsWith(InText(k), Drop(output_lines[k], OutLevel(k) + 1))
               ELSE output_lines[k] = emitted[k]

C27_Witness ==
    /\ Normalized
    /\ \E k \in HeadPos : OutLevel(k) < InLevel(k)
    /\ \E k \in HeadPos : Drop(output_lines[k], OutLevel(k) + 1) # InText(k)
    /\ \E k \in 1..Len(emitted) : k \notin HeadPos /\ emitted[k] # <<>>

-----------------------------------------------------------------------------
(* Claim C28: the assets directory and the Markdown file *)

p_report == <<Name("report", ".docx")>>
p_in_report == <<Name("in", ""), Name("report", ".docx")>>
p_out == <<Name("out", "")>>
p_out_slash == <<Name("out", ""), NoName>>
p_new_slash == <<Name("new", ""), NoName>>
p_out_notes == <<Name("out", ""), Name("notes", ".md")>>
p_new_notes == <<Name("new", ""), Name("notes", ".md")>>
p_notes == <<Name("notes", ".md")>>
p_stem == <<Name("report", "")>>

\* input paths with and without a directory part, and for output_path: none,
\* an existing directory, a path ending in '/', a file path with a directory
\* part, a bare file name
PathArguments ==
    { Arguments(i, o, {p_out}) :
          i \in {p_report, p_in_report},
          o \in {<<>>, p_out, p_out_slash, p_new_slash, p_out_notes, p_new_notes,
                 p_notes, p_stem} }

InitPaths == InitConverter({<<f>> : f \in InputFiles}, PathArguments)

SpecPaths == InitPaths /\ [][NextFile]_vars

\* the call has written its Markdown file
Written == pc = "returned" /\ final_output_path # <<>>

\* the directory ./assets/<filename> is resolved in
LinkedAssetsDir == join(dirname(final_output_path), <<Name("assets", "")>>)

\* C28: for every input path and output_path (none, an existing directory, a
\* path ending in '/', a file path with a directory part, a bare file name) the
\* assets directory that _setup_output_structure made is the assets
\* subdirectory of the directory of the Markdown file that
\* _get_final_output_path chose
C28_AssetsBesideMarkdown == Written => assets_dir = LinkedAssetsDir

-----------------------------------------------------------------------------
(* Claim C29: the image references and the extracted files *)

t_see == <<"s", "e", "e">>

\* a drawing element with one blip that embeds the relationship
Blip(rel_id) == << <<rel_id>> >>

\* paragraphs with text and drawing elements: blips that embed a relationship
\* of the manifest or an unknown one, a blip without r:embed, no blip
PictureParas ==
    { PicturePara(<<>>, <<Run(t_see, FALSE, 0)>>, ds) :
          ds \in { <<Blip("rId1")>>, <<Blip("rId2")>>, <<Blip("rId9")>>, << <<>> >>,
                   << << <<>> >> >>, <<Blip("rId1"), Blip("rId2")>>,
                   <<Blip("rId2"), Blip("rId9")>>, <<Blip("rId9"), <<>> >> } }

\* containers with two images, one of them perhaps unreadable
RefFileLists ==
    { <<Entry(p_a, "none"), Entry(p_b, fault), Entry(p_document, "none")>> :
          fault \in {"none", "open", "copy"} }

RefArchives ==
    {Archive("parsed", rels, fl) : rels \in Manifests, fl \in RefFileLists}
    \cup {Archive("missing", <<>>, fl) : fl \in RefFileLists}

InitRefs == InitCalls({<<InputFile(TRUE, FALSE, a, <<p>>)>> : a \in RefArchives, p \in PictureParas})

SpecRefs == InitRefs /\ [][NextExtract]_vars

\* where the image references of a text start
RefStarts(text) == {a \in 1..Len(text) : text[a] = "![Image](./assets/"}

\* the file name of the reference that starts at a
RefName(text, a) ==
    SubSeq(text, a + 1,
           (CHOOSE b \in (a + 1)..Len(text) :
                text[b] = ")" /\ \A c \in (a + 1)..(b - 1) : text[c] # ")") - 1)

\* the file names the written Markdown refers to
WrittenReferences == {RefName(markdown_content, a) : a \in RefStarts(markdown_content)}

\* the names of the files the extraction made in the assets directory
AssetNames == {assets[k].name : k \in 1..Len(assets)}

\* C29: every image reference written into the Markdown, mapped or positional
\* (image_NNN.png), names a file, extension and index included, that the image
\* extraction made for this document
C29_ReferencesNameExtractedFiles == pc = "returned" => WrittenReferences \subseteq AssetNames

-----------------------------------------------------------------------------
(* Claim C30: the images of headings and list items *)

MaxPictureBlocks == 2

\* the paragraph with a drawing whose blip embeds the container's image
WithDrawing(p) == [p EXCEPT !.drawings = <<Blip("rId1")>>]

\* paragraphs of every classification, with and without a drawing, and a table
PictureBlocks ==
    { WithDrawing(Plain(t_see)),
      WithDrawing(Plain(<<>>)),
      WithDrawing(Styled(st_Title, <<"T", "o", "p">>)),
      WithDrawing(Styled(st_Heading("1"), <<"O", "n", "e">>)),
      WithDrawing(Styled(st_Heading("2"), <<"T", "w", "o">>)),
      WithDrawing(Para(<<>>, <<Run(<<"K", "e", "y">>, TRUE, 0)>>, <<>>, <<>>, 0)),
      WithDrawing(Plain(<<"1", ".", "1", " ", "U+6982", "U+8FF0">>)),
      WithDrawing(Listed(<<"a", "b", "c">>, NumPr(<<"0">>), <<>>)),
      Plain(<<"e", "n", "d">>),
      Tbl(<< <<<<"x">>>> >>) }

PictureDocs == UNION {[1..k -> PictureBlocks] : k \in 1..MaxPictureBlocks}

InitPictures == InitCalls({<<InputFile(TRUE, d, OneImage, b)>> : d \in BOOLEAN, b \in PictureDocs})

SpecPictures == InitPictures /\ [][NextFile]_vars

\* the paragraphs in which image references are detected: those handed to
\* convert_paragraph, whose first step finds at least one
WithImages(i) ==
    /\ doc[i].tag = "p"
    /\ log[i].rule \notin {"title", "promoted"}
    /\ ImagesFound(doc[i]) # <<>>

\* C30: for every paragraph in which image references are detected, the
\* references are in the output, whatever the paragraph is emitted as: an
\* image-only paragraph, plain text, a heading of any rule or a list item
C30_NoImageDropped ==
    pc = "returned" =>
        \A i \in 1..Len(doc) :
            WithImages(i) =>
                \A k \in 1..Len(ImagesFound(doc[i])) : ImagesFound(doc[i])[k] \in WrittenReferences

====
